---- MODULE Spec2Model ----
(***************************************************************************)
(* VerifyIQ V2 - URL Scanner Service (scanUrl and its six probes).         *)
(*                                                                         *)
(* One scan is modelled as a state machine: the URL is parsed, the six     *)
(* probes are called one after the other (the array literal handed to      *)
(* Promise.allSettled), their promises settle in any order while scanUrl   *)
(* is suspended at the await, and the continuation builds `checks`,        *)
(* computes the IQ score and the verdict and returns.                      *)
(*                                                                         *)
(* Scores are kept in hundredths of a point (25 * 0.8 is 2000), so that    *)
(* the partial credits of computeIQScore are integers.                     *)
(***************************************************************************)
EXTENDS Integers, Sequences, FiniteSets, TLC

\* ------------------------------------------------------------------------
\* Bounds of the model
\* ------------------------------------------------------------------------
MaxMx == 2            \* largest number of MX records a resolver answers with
MaxRiskStep == 3      \* IPQS risk scores are drawn from 0, 50, .., 50 * MaxRiskStep
MaxAgeStep == 2       \* WHOIS creation ages are drawn from AgeGrid[1 .. MaxAgeStep]

\* ------------------------------------------------------------------------
\* Configuration and static tables
\* ------------------------------------------------------------------------
KeyNames == {"WHOIS_API_KEY", "SAFE_BROWSING_KEY", "IPQS_KEY"}

SUSPICIOUS_TLDS ==
    {".xyz", ".top", ".club", ".work", ".click", ".loan", ".win",
     ".gq", ".ml", ".cf", ".ga", ".tk", ".buzz", ".icu", ".monster",
     ".quest", ".rest", ".surf", ".cam", ".bar", ".hair"}

TRUSTED_TLDS ==
    {".com", ".org", ".net", ".edu", ".gov", ".mil", ".int",
     ".co.uk", ".co", ".io", ".dev", ".app", ".ai", ".us"}

\* The six probes, in the order of the array handed to Promise.allSettled.
Probes == <<"domain_age", "ssl", "dns", "safe_browsing", "whois", "reputation">>
ProbeNames == {Probes[i] : i \in 1..Len(Probes)}
IndexOf(p) == CHOOSE i \in 1..Len(Probes) : Probes[i] = p

\* ------------------------------------------------------------------------
\* Inputs: the strings handed to scanUrl.  TLA+ strings are atomic, so an
\* input carries, next to its text, what the WHATWG parser and the regular
\* expressions of the scanner see in it: the scheme, the labels of the host,
\* whether a PHISHING_PATTERNS entry matches the text and whether the host
\* has a run of four or more digits.
\* ------------------------------------------------------------------------
Urls ==
    { [text |-> "https://www.example.com/", scheme |-> "https:",
       labels |-> <<"www", "example", "com">>, phishing |-> FALSE, digits4 |-> FALSE],
      [text |-> "http://paypal-secure-login-verify.xyz/", scheme |-> "http:",
       labels |-> <<"paypal-secure-login-verify", "xyz">>, phishing |-> TRUE, digits4 |-> FALSE],
      [text |-> "www.example.com", scheme |-> "",
       labels |-> <<>>, phishing |-> FALSE, digits4 |-> FALSE],
      [text |-> "https://", scheme |-> "https:",
       labels |-> <<>>, phishing |-> FALSE, digits4 |-> FALSE] }

\* Number of '-' separated parts of each label used in Urls (domain.split('-')).
HyphenParts(label) ==
    IF label = "paypal-secure-login-verify" THEN 4 ELSE 1

RECURSIVE JoinDots(_)
JoinDots(labels) ==
    IF Len(labels) = 0 THEN ""
    ELSE IF Len(labels) = 1 THEN labels[1]
    ELSE labels[1] \o "." \o JoinDots(Tail(labels))

\* new URL(url): throws for a string without a scheme and for a special
\* scheme with an empty host; otherwise gives protocol and hostname.
ParseUrl(u) ==
    IF u.scheme = "" \/ Len(u.labels) = 0
    THEN [ok |-> FALSE]
    ELSE [ok |-> TRUE, protocol |-> u.scheme, hostname |-> JoinDots(u.labels)]

LastN(s, n) == SubSeq(s, Len(s) - n + 1, Len(s))

\* getRootDomain, on the labels of the host (domain.split('.')).
getRootDomain(parts) ==
    IF Len(parts) <= 2 THEN parts
    ELSE IF Len(parts) >= 3
            /\ parts[Len(parts) - 1] \in {"co", "com", "net", "org", "gov", "edu", "ac"}
         THEN LastN(parts, 3)
         ELSE LastN(parts, 2)

Max(a, b) == IF a >= b THEN a ELSE b
Min(a, b) == IF a <= b THEN a ELSE b

\* A field of a JavaScript object that may be absent (undefined).
Has(rec, f) == f \in DOMAIN rec
Truthy(rec, f) == Has(rec, f) /\ rec[f] = TRUE


\* ------------------------------------------------------------------------
\* What the outside world can answer
\* ------------------------------------------------------------------------
\* Creation ages (in days) a WHOIS record can carry; Date.now() - created,
\* floored to days, is the age itself.
AgeGrid == <<10, 1000, 400, 200, 30, 31, 180, 181, 365, 366, 730, 731, 0>>
AgeDays(n) == {AgeGrid[i] : i \in 1..Min(n, Len(AgeGrid))}

\* The body of the WHOIS API answer, as far as the scanner reads it.
WhoisReplies(n) ==
    { [WhoisRecord |-> FALSE] }
    \cup { [WhoisRecord |-> TRUE, createdDate |-> FALSE, registrarName |-> ""] }
    \cup { [WhoisRecord |-> TRUE, createdDate |-> TRUE, ageDays |-> a,
            registrarName |-> "NameCheap, Inc."] : a \in AgeDays(n) }

\* dns.resolveNs(rootDomain): rejected, or the nameservers; `established`
\* says whether one of them contains cloudflare, awsdns, google,
\* domaincontrol or registrar.
NsReplies == { [ok |-> FALSE], [ok |-> TRUE, established |-> TRUE],
               [ok |-> TRUE, established |-> FALSE] }

\* dns.resolve(rootDomain, 'A') of checkWhois.
AReplies == { [ok |-> FALSE], [ok |-> TRUE] }

\* The four settled lookups of checkDNS: A, MX, NS fulfilled or not (mx is
\* the number of MX records, 0 when the lookup was rejected), and what the
\* TXT lookup gave: rejected, or records with or without SPF and DMARC.
DnsAnswers ==
    { [a |-> FALSE, mx |-> 0, ns |-> FALSE, txt |-> "rejected"],
      [a |-> FALSE, mx |-> 0, ns |-> FALSE, txt |-> "spf"],
      [a |-> TRUE, mx |-> 0, ns |-> TRUE, txt |-> "none"],
      [a |-> TRUE, mx |-> 1, ns |-> TRUE, txt |-> "dmarc"],
      [a |-> TRUE, mx |-> MaxMx, ns |-> TRUE, txt |-> "both"] }

\* Safe Browsing answer: the number of matches (0 when `matches` is absent).
SafeBrowsingReplies == { [matches |-> 0], [matches |-> 1] }

\* IPQualityScore answer: a numeric risk_score or none.  A risk_score above
\* 100 or below 0 is a number too, and typeof accepts it.
IpqsReplies(n) ==
    { [numeric |-> FALSE] }
    \cup { [numeric |-> TRUE, risk_score |-> 50 * k] : k \in (0 - 1)..n }

\* The peer certificate seen by the secureConnect callback, or the socket's
\* error event.
TlsEvents ==
    { [event |-> "error"],
      [event |-> "connect", cert |-> FALSE],
      [event |-> "connect", cert |-> TRUE, inValidity |-> TRUE, days_remaining |-> 30],
      [event |-> "connect", cert |-> TRUE, inValidity |-> TRUE, days_remaining |-> 365],
      [event |-> "connect", cert |-> TRUE, inValidity |-> FALSE, days_remaining |-> 0 - 5] }

\* ------------------------------------------------------------------------
\* Promise states
\* ------------------------------------------------------------------------
NotCalled == [state |-> "none"]
Pending(ph) == [state |-> "pending", phase |-> ph]
Fulfilled(v) == [state |-> "fulfilled", value |-> v]
Rejected == [state |-> "rejected", reason |-> "Error"]

IsSettled(pr) == pr.state \in {"fulfilled", "rejected"}

\* ------------------------------------------------------------------------
\* The probes
\* ------------------------------------------------------------------------
\* Of the objects the probes return, the fields are kept that scanUrl and
\* computeIQScore read or that tell a caller where the value comes from
\* (source, estimated, error, fallback); dates, issuer names and record
\* lists are left out, and so is processing_time_ms of the result.
\* checkDomainAge, fallback: DNS-based heuristic.
domainAgeHeuristic(r) ==
    IF r.ok
    THEN [age_days |-> IF r.established THEN 365 ELSE 30, estimated |-> TRUE,
          source |-> "dns_heuristic"]
    ELSE [age_days |-> 0, error |-> "Could not determine domain age"]

\* checkDomainAge, WHOIS API branch: the promise after the API answered.
domainAgeAfterApi(r) ==
    IF r.WhoisRecord /\ r.createdDate
    THEN Fulfilled([age_days |-> r.ageDays, source |-> "whoisxml"])
    ELSE Pending("dns")

\* checkWhois, WHOIS API branch.
whoisAfterApi(r) ==
    IF r.WhoisRecord
    THEN Fulfilled([registered |-> TRUE,
                    registrar |-> IF r.registrarName = "" THEN "Unknown" ELSE r.registrarName,
                    source |-> "whoisxml"])
    ELSE Pending("dns")

\* checkWhois, fallback: does the domain resolve.
whoisFallback(r) ==
    IF r.ok
    THEN [registered |-> TRUE, registrar |-> "Unknown (no WHOIS key)", source |-> "dns_fallback"]
    ELSE [registered |-> FALSE, error |-> "Domain does not resolve"]

\* checkDNS: the results object built from the four settled lookups.
checkDNS(ans) ==
    LET has == ans.a \/ ans.mx > 0 \/ ans.ns
    IN  IF ans.txt = "rejected"
        THEN [has_records |-> has, mx_count |-> ans.mx]
        ELSE [has_records |-> has, mx_count |-> ans.mx,
              has_spf |-> ans.txt \in {"spf", "both"},
              has_dmarc |-> ans.txt \in {"dmarc", "both"}]

\* checkSSL: what the promise resolves with on a socket event.
checkSSLEvent(ev) ==
    IF ev.event = "error" THEN [valid |-> FALSE, error |-> "SSL connection failed"]
    ELSE IF ~ev.cert THEN [valid |-> FALSE, error |-> "No certificate found"]
    ELSE [valid |-> ev.inValidity, days_remaining |-> ev.days_remaining]

sslTimedOut == [valid |-> FALSE, error |-> "SSL check timed out"]
sslNotHttps == [valid |-> FALSE, error |-> "Site does not use HTTPS"]

\* checkSafeBrowsing, fallback: pattern-based detection.
safeBrowsingPattern(u) ==
    [safe |-> ~u.phishing, source |-> "pattern_heuristic"]

\* checkSafeBrowsing, Google Safe Browsing branch.
safeBrowsingAfterApi(r) ==
    IF r.matches > 0
    THEN [safe |-> FALSE, source |-> "google_safe_browsing"]
    ELSE [safe |-> TRUE, source |-> "google_safe_browsing"]

RECURSIVE SumHyphens(_)
SumHyphens(labels) ==
    IF Len(labels) = 0 THEN 0
    ELSE (HyphenParts(labels[1]) - 1) + SumHyphens(Tail(labels))

\* checkReputation, fallback: heuristic reputation scoring.
reputationHeuristic(u) ==
    LET labels == u.labels
        tld == "." \o labels[Len(labels)]
        rootLen == Len(JoinDots(getRootDomain(labels)))
        hyphens == SumHyphens(labels)
        s0 == 70
        s1 == IF tld \in TRUSTED_TLDS THEN s0 + 10 ELSE s0
        s2 == IF tld \in SUSPICIOUS_TLDS THEN s1 - 25 ELSE s1
        s3 == IF rootLen > 30 THEN s2 - 10 ELSE s2
        s4 == IF rootLen < 6 THEN s3 + 5 ELSE s3
        s5 == IF hyphens > 0 /\ hyphens + 1 > 3 THEN s4 - 15 ELSE s4
        s6 == IF u.digits4 THEN s5 - 10 ELSE s5
        s7 == IF Len(labels) - 2 > 2 THEN s6 - 10 ELSE s6
        s8 == IF u.phishing THEN s7 - 30 ELSE s7
    IN  [score |-> Max(0, Min(100, s8)), source |-> "heuristic"]

\* checkReputation, IPQualityScore branch.
reputationAfterApi(r, u) ==
    IF r.numeric
    THEN [score |-> 100 - r.risk_score, source |-> "ipqualityscore"]
    ELSE reputationHeuristic(u)

\* ------------------------------------------------------------------------
\* IQ score computation
\* ------------------------------------------------------------------------
ageWeight == 25
sslWeight == 15
sbWeight == 30
dnsWeight == 10
whoisWeight == 10
repWeight == 10

\* What stands for the JavaScript NaN (a number outside every score).
NaN == 0 - 1

\* The age tiers with a top tier worth 0.8.
ageScoreTopTierEighty(c) ==
    IF Has(c, "age_days") /\ c.age_days > 365 THEN ageWeight * 80
    ELSE IF Has(c, "age_days") /\ c.age_days > 180 THEN ageWeight * 60
    ELSE IF Has(c, "age_days") /\ c.age_days > 30 THEN ageWeight * 30
    ELSE ageWeight * 10

\* Contribution of the domain age, in hundredths of a point.  A comparison
\* with an absent age_days is false.
ageScore(c) ==
    IF Has(c, "age_days") /\ c.age_days > 730 THEN ageWeight * 100
    ELSE IF Has(c, "age_days") /\ c.age_days > 365 THEN ageWeight * 80
    ELSE IF Has(c, "age_days") /\ c.age_days > 180 THEN ageWeight * 60
    ELSE IF Has(c, "age_days") /\ c.age_days > 30 THEN ageWeight * 30
    ELSE ageWeight * 10

\* Contribution of the certificate, with the bonus for long-lived ones.
sslScore(c) ==
    IF Truthy(c, "valid")
    THEN sslWeight * 100
         + (IF Has(c, "days_remaining") /\ c.days_remaining > 90 THEN 200 ELSE 0)
    ELSE 0

\* The threat-list contribution given to the unsafe answers.
sbScoreInverted(c) ==
    IF Truthy(c, "safe") THEN 0 ELSE sbWeight * 100

sbScore(c) ==
    IF Truthy(c, "safe") THEN sbWeight * 100 ELSE 0

dnsScore(c) ==
    IF Truthy(c, "has_records")
    THEN dnsWeight * 50
         + (IF Has(c, "mx_count") /\ c.mx_count > 0 THEN dnsWeight * 20 ELSE 0)
         + (IF Truthy(c, "has_spf") THEN dnsWeight * 15 ELSE 0)
         + (IF Truthy(c, "has_dmarc") THEN dnsWeight * 15 ELSE 0)
    ELSE 0

whoisScore(c) ==
    IF Truthy(c, "registered")
    THEN whoisWeight * 60
         + (IF Has(c, "registrar") /\ c.registrar # "Unknown (no WHOIS key)"
            THEN whoisWeight * 40 ELSE 0)
    ELSE 0

\* (checks.reputation.score / 100) * repWeight, in hundredths of a point.
repScore(c) == c.score * repWeight

\* The contribution of one probe's entry of `checks`.
ProbeScore(p, c) ==
    CASE p = "domain_age" -> ageScore(c)
      [] p = "ssl" -> sslScore(c)
      [] p = "safe_browsing" -> sbScore(c)
      [] p = "dns" -> dnsScore(c)
      [] p = "whois" -> whoisScore(c)
      [] p = "reputation" -> repScore(c)

\* The running sum `score`, in hundredths of a point.
rawScore(checks) ==
    ageScore(checks.domain_age) + sslScore(checks.ssl)
    + sbScore(checks.safe_browsing) + dnsScore(checks.dns)
    + whoisScore(checks.whois) + repScore(checks.reputation)

\* The sum of the weights with the reputation weight forgotten.
totalWeightWithoutReputation == ageWeight + sslWeight + sbWeight + dnsWeight + whoisWeight

\* The running sum `totalWeight`.
totalWeight == ageWeight + sslWeight + sbWeight + dnsWeight + whoisWeight + repWeight

\* (score / totalWeight) * 100, in hundredths.
Normalize(score, total) == (score * 100) \div total

\* The normalisation without its clamp.
ClampMissing(x) == x

\* Math.max(0, Math.min(100, x)), x in hundredths.
Clamp(x) == Max(0, Min(10000, x))

\* The halves k + 0.5 that the double expression (score / totalWeight) * 100
\* returns just below k + 0.5 (14.5 / 100 * 100 is 14.499999999999998), so
\* that Math.round gives k for them and k + 1 for every other half.
DoubleTieDown == {14, 28, 56, 57}

\* Math.round of a clamped value given in hundredths.
MathRound(h) ==
    IF h % 100 = 50 /\ (h \div 100) \in DoubleTieDown
    THEN h \div 100
    ELSE (h + 50) \div 100

\* An absent reputation score makes the whole sum NaN.
computeIQScore(checks) ==
    IF ~Has(checks.reputation, "score") THEN NaN
    ELSE MathRound(Clamp(Normalize(rawScore(checks), totalWeight)))

\* Determine verdict.
Verdict(iq_score) ==
    IF iq_score >= 75 THEN "safe"
    ELSE IF iq_score >= 50 THEN "suspicious"
    ELSE "dangerous"

\* The substitutes with a reputation of 0 in place of 50.
CheckFallbackZeroReputation(p) ==
    CASE p = "domain_age" -> [error |-> "Check failed", age_days |-> 0]
      [] p = "ssl" -> [valid |-> FALSE, error |-> "Check failed"]
      [] p = "dns" -> [has_records |-> FALSE, error |-> "Check failed"]
      [] p = "safe_browsing" -> [safe |-> TRUE, fallback |-> TRUE]
      [] p = "whois" -> [registered |-> FALSE, error |-> "Check failed"]
      [] p = "reputation" -> [score |-> 0]

\* The value substituted for a probe whose promise was rejected.
CheckFallback(p) ==
    CASE p = "domain_age" -> [error |-> "Check failed", age_days |-> 0]
      [] p = "ssl" -> [valid |-> FALSE, error |-> "Check failed"]
      [] p = "dns" -> [has_records |-> FALSE, error |-> "Check failed"]
      [] p = "safe_browsing" -> [safe |-> TRUE, fallback |-> TRUE]
      [] p = "whois" -> [registered |-> FALSE, error |-> "Check failed"]
      [] p = "reputation" -> [score |-> 50]

\* const checks = { ... }: one entry per probe, from the settled results in
\* the order of the array.
BuildChecks(results) ==
    [p \in ProbeNames |->
        IF results[IndexOf(p)].status = "fulfilled"
        THEN results[IndexOf(p)].value
        ELSE CheckFallback(p)]

\* ------------------------------------------------------------------------
\* Verdict classifiers of the other analyzers
\* ------------------------------------------------------------------------
\* The social classifier with the two middle tiers exchanged.
socialVerdictSwapped(score) ==
    IF score > 80 THEN "Authentic"
    ELSE IF score > 60 THEN "Suspicious"
    ELSE IF score > 40 THEN "Plausible"
    ELSE "Bot/Fake"

\* SocialAnalyzer.calculateIntegrityScore: the verdict of a clamped score.
socialVerdict(score) ==
    IF score > 80 THEN "Authentic"
    ELSE IF score > 60 THEN "Plausible"
    ELSE IF score > 40 THEN "Suspicious"
    ELSE "Bot/Fake"

\* EmailVerifier.calculateScore: the verdict of a clamped score.
emailVerdict(score) ==
    IF score >= 80 THEN "deliverable"
    ELSE IF score >= 60 THEN "risky"
    ELSE IF score >= 30 THEN "risky"
    ELSE "undeliverable"

\* The scores a classifier is handed: every analyzer clamps to 0..100.
Scores == 0..100

\* No classification and no rug-pull analysis under way.
ClsIdle == [classified |-> FALSE, a |-> 0, b |-> 0]
RugIdle == [pc |-> "idle"]

\* No bulk request, no authenticated request, no profile, no popup and no
\* context-menu action under way.
BulkIdle == [pc |-> "idle"]
AuthIdle == [pc |-> "idle"]
SocialIdle == [pc |-> "idle"]
HistIdle == [pc |-> "idle"]
ExtIdle == [pc |-> "idle"]

\* ------------------------------------------------------------------------
\* State
\* ------------------------------------------------------------------------
VARIABLES
    url,        \* the argument of scanUrl
    keys,       \* the API keys set in the environment
    pc,         \* position in scanUrl: "parse", "launch", "await", "done"
    nextProbe,  \* index of the next element of the array literal to evaluate
    promise,    \* the promise returned by each probe
    started,    \* how many times each probe function was called
    settled,    \* the values array of Promise.allSettled
    outOfOrder, \* history: a promise settled before an earlier element of the array
    result,     \* the promise returned by scanUrl
    cls,        \* two scores and the verdicts the classifiers give them
    rug,        \* one call of RugPullAnalyzer.analyze
    bulk,       \* one request of POST /api/bulk-scan
    auth,       \* the API keys, their usage counters and the last response
    social,     \* one profile and the two analyzers' results for it
    hist,       \* the popup's scanHistory and its copy in chrome.storage.local
    ext         \* background worker, message channel and content script

vars == <<url, keys, pc, nextProbe, promise, started, settled, outOfOrder, result, cls, rug,
          bulk, auth, social, hist, ext>>

laterVars == <<bulk, auth, social, hist, ext>>

\* The parts of the service that are not named stay idle.
IdleBut(names) ==
    /\ IF "bulk" \in names THEN TRUE ELSE bulk = BulkIdle
    /\ IF "auth" \in names THEN TRUE ELSE auth = AuthIdle
    /\ IF "social" \in names THEN TRUE ELSE social = SocialIdle
    /\ IF "hist" \in names THEN TRUE ELSE hist = HistIdle
    /\ IF "ext" \in names THEN TRUE ELSE ext = ExtIdle

SlotPending == [status |-> "pending"]

\* The entry Promise.allSettled records for a settled promise.
SettledEntry(pr) ==
    IF pr.state = "fulfilled"
    THEN [status |-> "fulfilled", value |-> pr.value]
    ELSE [status |-> "rejected", reason |-> pr.reason]

\* The entries kept in the order in which the promises settle.
StoreSettledInArrivalOrder(values, i, pr) ==
    LET free == CHOOSE j \in DOMAIN values :
                    /\ values[j].status = "pending"
                    /\ \A k \in DOMAIN values : k < j => values[k].status # "pending"
    IN  [values EXCEPT ![free] = SettledEntry(pr)]

\* Promise.allSettled keeps the entry of the i-th promise at index i.
StoreSettled(values, i, pr) == [values EXCEPT ![i] = SettledEntry(pr)]

\* Promise.all in place of Promise.allSettled: the first rejection rejects.
AwaitAllRejecting(values) ==
    IF \E i \in DOMAIN values : values[i].status = "rejected"
    THEN [state |-> "rejected", reason |-> "Error"]
    ELSE [state |-> "fulfilled", value |-> values]

\* await Promise.allSettled([...]): never rejects, gives the values array.
AwaitAllSettled(values) == [state |-> "fulfilled", value |-> values]

\* The promise a probe returns when it is called: the synchronous part of
\* its body runs up to the first network call.
StartProbe(p, u, k) ==
    CASE p = "domain_age" ->
            IF "WHOIS_API_KEY" \in k THEN Pending("api") ELSE Pending("dns")
      [] p = "ssl" ->
            IF ParseUrl(u).protocol = "https:" THEN Pending("tls")
            ELSE Fulfilled(sslNotHttps)
      [] p = "dns" -> Pending("dns")
      [] p = "safe_browsing" ->
            IF "SAFE_BROWSING_KEY" \in k THEN Pending("api")
            ELSE Fulfilled(safeBrowsingPattern(u))
      [] p = "whois" ->
            IF "WHOIS_API_KEY" \in k THEN Pending("api") ELSE Pending("dns")
      [] p = "reputation" ->
            IF "IPQS_KEY" \in k THEN Pending("api")
            ELSE Fulfilled(reputationHeuristic(u))

\* The probes whose pending body runs statements outside every try block,
\* so that an exception there rejects the promise: checkDNS reads the
\* answers after its await without a try.  The other probes wait inside a
\* try whose catch falls through to code that only tests strings.
ThrowingProbes == {"dns"}

\* A scheduler that calls a probe again when its promise came back rejected.
CanLaunchRetrying(i) ==
    /\ pc = "launch"
    /\ \/ nextProbe = i
       \/ i < nextProbe /\ promise[Probes[i]].state = "rejected" /\ started[Probes[i]] < 2

\* The element of the array literal evaluated next.
CanLaunch(i) == pc = "launch" /\ nextProbe = i

SetPromise(p, np) ==
    /\ promise' = [promise EXCEPT ![p] = np]
    /\ settled' = IF IsSettled(np) THEN StoreSettled(settled, IndexOf(p), np)
                  ELSE settled
    /\ outOfOrder' = (outOfOrder \/ (IsSettled(np) /\ \E q \in ProbeNames :
                            IndexOf(q) < IndexOf(p) /\ ~IsSettled(promise[q])))

TypeOK ==
    /\ url \in Urls
    /\ keys \subseteq KeyNames
    /\ pc \in {"parse", "launch", "await", "done"}
    /\ nextProbe \in 1..(Len(Probes) + 1)
    /\ DOMAIN promise = ProbeNames
    /\ \A p \in ProbeNames : promise[p].state \in {"none", "pending", "fulfilled", "rejected"}
    /\ started \in [ProbeNames -> 0..2]
    /\ DOMAIN settled = 1..Len(Probes)
    /\ outOfOrder \in BOOLEAN
    /\ result.state \in {"pending", "fulfilled", "rejected"}

Init ==
    /\ url \in Urls
    /\ keys \in SUBSET KeyNames
    /\ pc = "parse"
    /\ nextProbe = 1
    /\ promise = [p \in ProbeNames |-> NotCalled]
    /\ started = [p \in ProbeNames |-> 0]
    /\ settled = [i \in 1..Len(Probes) |-> SlotPending]
    /\ outOfOrder = FALSE
    /\ result = [state |-> "pending"]
    /\ cls = ClsIdle
    /\ rug = RugIdle
    /\ IdleBut({})

\* ------------------------------------------------------------------------
\* scanUrl
\* ------------------------------------------------------------------------
\* An error object that carries no reason.
InvalidUrlResultSilent(u) ==
    [iq_score |-> 0, verdict |-> "dangerous", url |-> u.text]

\* The object returned for a string that does not parse.
InvalidUrlResult(u) ==
    [iq_score |-> 0, verdict |-> "dangerous", error |-> "Invalid URL format",
     url |-> u.text]

\* try { parsedUrl = new URL(url) } catch (e) { return {...} }
ScanStart ==
    /\ pc = "parse"
    /\ IF ParseUrl(url).ok
       THEN /\ pc' = "launch"
            /\ result' = result
       ELSE /\ pc' = "done"
            /\ result' = Fulfilled(InvalidUrlResult(url))
    /\ UNCHANGED <<url, keys, nextProbe, promise, started, settled, outOfOrder, cls, rug, laterVars>>

\* One element of the array literal: the probe is called and returns its
\* promise; an exception in the synchronous part of an async function (or in
\* the executor of checkSSL's promise) gives a promise that is rejected.
Launch(i) ==
    /\ CanLaunch(i)
    /\ i \in 1..Len(Probes)
    /\ \E throws \in BOOLEAN :
          SetPromise(Probes[i], IF throws THEN Rejected ELSE StartProbe(Probes[i], url, keys))
    /\ started' = [started EXCEPT ![Probes[i]] = @ + 1]
    /\ nextProbe' = i + 1
    /\ pc' = IF i = Len(Probes) THEN "await" ELSE "launch"
    /\ UNCHANGED <<url, keys, result, cls, rug, laterVars>>

\* A probe that lets the failure of its provider escape.
ApiFallThroughRejecting(p, u) == Rejected

\* What the probe does when its keyed provider did not give a usable answer
\* (catch (e) { /* fall through */ }).
ApiFallThrough(p, u) ==
    CASE p = "domain_age" -> Pending("dns")
      [] p = "whois" -> Pending("dns")
      [] p = "safe_browsing" -> Fulfilled(safeBrowsingPattern(u))
      [] p = "reputation" -> Fulfilled(reputationHeuristic(u))

ApiProbes == {"domain_age", "whois", "safe_browsing", "reputation"}

\* fetchJSON resolved with a parsed body.
ApiReply(p) ==
    /\ pc = "await"
    /\ p \in ApiProbes
    /\ promise[p] = Pending("api")
    /\ \/ /\ p = "domain_age"
          /\ \E r \in WhoisReplies(MaxAgeStep) : SetPromise(p, domainAgeAfterApi(r))
       \/ /\ p = "whois"
          /\ \E r \in WhoisReplies(1) : SetPromise(p, whoisAfterApi(r))
       \/ /\ p = "safe_browsing"
          /\ \E r \in SafeBrowsingReplies : SetPromise(p, Fulfilled(safeBrowsingAfterApi(r)))
       \/ /\ p = "reputation"
          /\ \E r \in IpqsReplies(MaxRiskStep) :
                SetPromise(p, Fulfilled(reputationAfterApi(r, url)))
    /\ UNCHANGED <<url, keys, pc, nextProbe, started, result, cls, rug, laterVars>>

\* fetchJSON rejected: socket error or 'Invalid JSON response'.
ApiError(p) ==
    /\ pc = "await"
    /\ p \in ApiProbes
    /\ promise[p] = Pending("api")
    /\ SetPromise(p, ApiFallThrough(p, url))
    /\ UNCHANGED <<url, keys, pc, nextProbe, started, result, cls, rug, laterVars>>

\* fetchJSON's 8000 ms request timeout: req.destroy(), 'Request timed out'.
ApiTimeout(p) ==
    /\ pc = "await"
    /\ p \in ApiProbes
    /\ promise[p] = Pending("api")
    /\ SetPromise(p, ApiFallThrough(p, url))
    /\ UNCHANGED <<url, keys, pc, nextProbe, started, result, cls, rug, laterVars>>

\* The resolver answered the lookups a probe is waiting for.
DnsReply(p) ==
    /\ pc = "await"
    /\ promise[p] = Pending("dns")
    /\ \/ /\ p = "domain_age"
          /\ \E r \in NsReplies : SetPromise(p, Fulfilled(domainAgeHeuristic(r)))
       \/ /\ p = "whois"
          /\ \E r \in AReplies : SetPromise(p, Fulfilled(whoisFallback(r)))
       \/ /\ p = "dns"
          /\ \E r \in DnsAnswers : SetPromise(p, Fulfilled(checkDNS(r)))
    /\ UNCHANGED <<url, keys, pc, nextProbe, started, result, cls, rug, laterVars>>

\* checkSSL: the secureConnect callback or the socket's error event.
TlsEvent ==
    /\ pc = "await"
    /\ promise["ssl"] = Pending("tls")
    /\ \E ev \in TlsEvents : SetPromise("ssl", Fulfilled(checkSSLEvent(ev)))
    /\ UNCHANGED <<url, keys, pc, nextProbe, started, result, cls, rug, laterVars>>

\* checkSSL: socket.setTimeout(5000, ...).
SSLTimeout ==
    /\ pc = "await"
    /\ promise["ssl"] = Pending("tls")
    /\ SetPromise("ssl", Fulfilled(sslTimedOut))
    /\ UNCHANGED <<url, keys, pc, nextProbe, started, result, cls, rug, laterVars>>

\* An exception escapes the body of a pending probe.
ProbeThrows(p) ==
    /\ pc = "await"
    /\ p \in ThrowingProbes
    /\ promise[p].state = "pending"
    /\ SetPromise(p, Rejected)
    /\ UNCHANGED <<url, keys, pc, nextProbe, started, result, cls, rug, laterVars>>

\* The object scanUrl returns after the await.
ScanResult(awaited, u) ==
    IF awaited.state = "rejected"
    THEN [state |-> "rejected", reason |-> "Error"]
    ELSE LET checks == BuildChecks(awaited.value)
             iq_score == computeIQScore(checks)
         IN  Fulfilled([iq_score |-> iq_score, verdict |-> Verdict(iq_score),
                        url |-> u.text, domain |-> ParseUrl(u).hostname,
                        checks |-> checks])

\* The continuation of scanUrl once Promise.allSettled has settled.
Return ==
    /\ pc = "await"
    /\ \A i \in 1..Len(Probes) : settled[i].status # "pending"
    /\ result' = ScanResult(AwaitAllSettled(settled), url)
    /\ pc' = "done"
    /\ UNCHANGED <<url, keys, nextProbe, promise, started, settled, outOfOrder, cls, rug, laterVars>>

Next ==
    \/ ScanStart
    \/ \E i \in 1..Len(Probes) : Launch(i)
    \/ \E p \in ProbeNames : ApiReply(p)
    \/ \E p \in ProbeNames : ApiError(p)
    \/ \E p \in ProbeNames : ApiTimeout(p)
    \/ \E p \in ProbeNames : DnsReply(p)
    \/ TlsEvent
    \/ SSLTimeout
    \/ \E p \in ProbeNames : ProbeThrows(p)
    \/ Return

Spec == Init /\ [][Next]_vars

\* The program's own steps are taken when they are enabled: the event loop
\* runs the synchronous code and the continuation, and the timers of
\* checkSSL and fetchJSON fire.  The answers of the network are not owed.
Fairness ==
    /\ WF_vars(ScanStart)
    /\ WF_vars(\E i \in 1..Len(Probes) : Launch(i))
    /\ WF_vars(\E p \in ProbeNames : ApiTimeout(p))
    /\ WF_vars(SSLTimeout)
    /\ WF_vars(Return)

SpecLive == Spec /\ Fairness

\* ------------------------------------------------------------------------
\* computeIQScore over the whole range of the probes' outcomes
\* ------------------------------------------------------------------------
ScoreAgeSteps == 13     \* how many entries of AgeGrid the WHOIS answer draws from
ScoreRiskStep == 4      \* IPQS risk scores 0, 50, .., 50 * ScoreRiskStep

ScoreTlsEvents ==
    TlsEvents \cup
    { [event |-> "connect", cert |-> TRUE, inValidity |-> TRUE, days_remaining |-> d] :
        d \in {90, 91} }

ScoreDnsAnswers ==
    { [a |-> x, mx |-> m, ns |-> x, txt |-> t] :
        x \in BOOLEAN, m \in {0, MaxMx}, t \in {"rejected", "none", "spf", "both"} }

\* Every state the promise of probe p can settle in, for input u.
ProbeOutcomes(p, u) ==
    {Rejected} \cup
    CASE p = "domain_age" ->
            { domainAgeAfterApi(r) : r \in { w \in WhoisReplies(ScoreAgeSteps) :
                                             w.WhoisRecord /\ w.createdDate } }
            \cup { Fulfilled(domainAgeHeuristic(r)) : r \in NsReplies }
      [] p = "ssl" ->
            IF ParseUrl(u).protocol = "https:"
            THEN { Fulfilled(checkSSLEvent(ev)) : ev \in ScoreTlsEvents }
                 \cup { Fulfilled(sslTimedOut) }
            ELSE { Fulfilled(sslNotHttps) }
      [] p = "dns" -> { Fulfilled(checkDNS(r)) : r \in ScoreDnsAnswers }
      [] p = "safe_browsing" ->
            { Fulfilled(safeBrowsingAfterApi(r)) : r \in SafeBrowsingReplies }
            \cup { Fulfilled(safeBrowsingPattern(u)) }
      [] p = "whois" ->
            { whoisAfterApi(r) : r \in { w \in WhoisReplies(1) : w.WhoisRecord } }
            \cup { Fulfilled(whoisFallback(r)) : r \in AReplies }
      [] p = "reputation" ->
            { Fulfilled(reputationAfterApi(r, u)) : r \in IpqsReplies(ScoreRiskStep) }

\* scanUrl suspended at the await with every probe settled.
InitScore ==
    /\ url \in { u \in Urls : ParseUrl(u).ok }
    /\ keys = KeyNames
    /\ pc = "await"
    /\ nextProbe = Len(Probes) + 1
    /\ \E age \in ProbeOutcomes("domain_age", url), ssl \in ProbeOutcomes("ssl", url),
          dns \in ProbeOutcomes("dns", url), sb \in ProbeOutcomes("safe_browsing", url),
          whois \in ProbeOutcomes("whois", url), rep \in ProbeOutcomes("reputation", url) :
            promise = [domain_age |-> age, ssl |-> ssl, dns |-> dns,
                       safe_browsing |-> sb, whois |-> whois, reputation |-> rep]
    /\ started = [p \in ProbeNames |-> 1]
    /\ settled = [i \in 1..Len(Probes) |-> SettledEntry(promise[Probes[i]])]
    /\ outOfOrder = FALSE
    /\ result = [state |-> "pending"]
    /\ cls = ClsIdle
    /\ rug = RugIdle
    /\ IdleBut({})

NextScore == Return

SpecScore == InitScore /\ [][NextScore]_vars

\* ------------------------------------------------------------------------
\* The verdict classifiers on their own
\* ------------------------------------------------------------------------
\* No scan under way.
ScanIdle ==
    /\ url = CHOOSE u \in Urls : u.text = "https://www.example.com/"
    /\ keys = {}
    /\ pc = "parse"
    /\ nextProbe = 1
    /\ promise = [p \in ProbeNames |-> NotCalled]
    /\ started = [p \in ProbeNames |-> 0]
    /\ settled = [i \in 1..Len(Probes) |-> SlotPending]
    /\ outOfOrder = FALSE
    /\ result = [state |-> "pending"]

scanVars == <<url, keys, pc, nextProbe, promise, started, settled, outOfOrder, result>>

InitClassify ==
    /\ ScanIdle
    /\ rug = RugIdle
    /\ IdleBut({})
    /\ \E x \in Scores, y \in Scores : cls = [classified |-> FALSE, a |-> x, b |-> y]

\* The three classifiers applied to both scores.
Classify ==
    /\ ~cls.classified
    /\ cls' = [classified |-> TRUE, a |-> cls.a, b |-> cls.b,
               url |-> <<Verdict(cls.a), Verdict(cls.b)>>,
               social |-> <<socialVerdict(cls.a), socialVerdict(cls.b)>>,
               email |-> <<emailVerdict(cls.a), emailVerdict(cls.b)>>]
    /\ UNCHANGED <<scanVars, rug, laterVars>>

NextClassify == Classify

SpecClassify == InitClassify /\ [][NextClassify]_vars

\* ------------------------------------------------------------------------
\* RugPullAnalyzer
\* ------------------------------------------------------------------------
\* Known safe tokens (whitelisted).
KNOWN_SAFE ==
    { "0xdac17f958d2ee523a2206206994597c13d831ec7",
      "0xa0b86991c6218b36c1d19d4a2e9eb0ce3606eb48",
      "0x6b175474e89094c44da98b954eedeac495271d0f",
      "0xc02aaa39b223fe8d0a0e5c4f27ead9083c756cc2",
      "0x2260fac5e5542a773aa44fbcfedf7c193bc2c599",
      "0x514910771af9ca656af840dff83e8264ecf986ca",
      "0x1f9840a85d5af5bf1d1762f925bdaddc4201f984",
      "0x7fc66500c84a76ad7e9c93437bfc5ac33e2ddae9",
      "0x95ad61b0a150d79219dcf64e1e6cc01f0b64c4ce" }

\* The addresses analyze is called with: a whitelisted token in lower case,
\* in checksum case and padded with blanks, a second whitelisted token in
\* checksum case, and three addresses that are not whitelisted.
RugAddresses ==
    { "0xdac17f958d2ee523a2206206994597c13d831ec7",
      "0xdAC17F958D2ee523a2206206994597C13D831ec7",
      "  0xdAC17F958D2ee523a2206206994597C13D831ec7 ",
      "0x6B175474E89094C44Da98b954EedeAC495271d0F",
      "0x000000000000000000000000000000000000dEaD",
      "0x1234567890AbCdEf1234567890aBcDeF12345678",
      " 0x1234567890abcdef1234567890abcdef12345678" }

\* String.prototype.toLowerCase on the strings of the model.
ToLowerCase(str) ==
    CASE str = "0xdAC17F958D2ee523a2206206994597C13D831ec7"
            -> "0xdac17f958d2ee523a2206206994597c13d831ec7"
      [] str = "  0xdAC17F958D2ee523a2206206994597C13D831ec7 "
            -> "  0xdac17f958d2ee523a2206206994597c13d831ec7 "
      [] str = "0x6B175474E89094C44Da98b954EedeAC495271d0F"
            -> "0x6b175474e89094c44da98b954eedeac495271d0f"
      [] str = "0x000000000000000000000000000000000000dEaD"
            -> "0x000000000000000000000000000000000000dead"
      [] str = "0x1234567890AbCdEf1234567890aBcDeF12345678"
            -> "0x1234567890abcdef1234567890abcdef12345678"
      [] OTHER -> str

\* String.prototype.trim on the strings of the model.
Trim(str) ==
    CASE str = "  0xdAC17F958D2ee523a2206206994597C13D831ec7 "
            -> "0xdAC17F958D2ee523a2206206994597C13D831ec7"
      [] str = "  0xdac17f958d2ee523a2206206994597c13d831ec7 "
            -> "0xdac17f958d2ee523a2206206994597c13d831ec7"
      [] str = " 0x1234567890abcdef1234567890abcdef12345678"
            -> "0x1234567890abcdef1234567890abcdef12345678"
      [] OTHER -> str

\* (address.match(/0/g) || []).length
ZeroCount(str) ==
    IF str = "0x000000000000000000000000000000000000dEaD" THEN 37 ELSE 3

\* The address looked up as it was given.
RugNormalizeAsGiven(address) == address

\* normalizedAddr
RugNormalize(address) == Trim(ToLowerCase(address))

\* The result for a whitelisted token.  "--" stands for the dash of the
\* verdict texts.
RugWhitelisted(address, chain) ==
    [address |-> address, chain |-> chain, isHoneypot |-> FALSE,
     buyTax |-> 0, sellTax |-> 0,
     verdict |-> "SAFE -- Whitelisted Token", risk_level |-> "safe",
     liquidity |-> "High", lpLocked |-> TRUE, signals |-> <<"Whitelisted">>]

\* Token names of the replies and whether SCAM_NAME_PATTERNS matches them.
TokenNames == {"", "Tether USD", "ElonMoon 100x"}
MatchesScamPattern(name) == name = "ElonMoon 100x"

\* The bodies HoneyPot.is answers with, after JSON.parse and the defaults
\* for absent fields; taxes in thousandths of a percent.
HoneypotReplies ==
    { [isHoneypot |-> h, buyTax |-> b, sellTax |-> t, liquidity |-> l,
       liquidityLocked |-> k, name |-> n] :
        h \in BOOLEAN, b \in {0, 10004, 10006},
        t \in {0, 10004, 10006, 50004, 50006},
        l \in {0, 999, 1000}, k \in BOOLEAN, n \in TokenNames }

\* Math.round(x * 100) / 100: thousandths to hundredths of a percent.
RoundHundredths(x) == (x + 5) \div 10

\* risk_level === 'safe' ? level : risk_level
RaiseFromSafe(risk_level, level) ==
    IF risk_level = "safe" THEN level ELSE risk_level

\* checkHoneypotIs: the object the promise resolves with.
checkHoneypotIs(json) ==
    LET isHoneypot == json.isHoneypot
        buyTax == RoundHundredths(json.buyTax)
        sellTax == RoundHundredths(json.sellTax)
        r1 == IF isHoneypot THEN "critical" ELSE "safe"
        g1 == IF isHoneypot THEN <<"HONEYPOT">> ELSE <<>>
        r2 == IF sellTax > 5000 THEN "critical"
              ELSE IF sellTax > 1000 THEN RaiseFromSafe(r1, "high")
              ELSE r1
        g2 == IF sellTax > 5000 THEN Append(g1, "Extreme Sell Tax")
              ELSE IF sellTax > 1000 THEN Append(g1, "High Sell Tax")
              ELSE g1
        r3 == IF buyTax > 1000 THEN RaiseFromSafe(r2, "medium") ELSE r2
        g3 == IF buyTax > 1000 THEN Append(g2, "High Buy Tax") ELSE g2
        liquidity == json.liquidity
        lpLocked == json.liquidityLocked
        r4 == IF liquidity < 1000 THEN RaiseFromSafe(r3, "high") ELSE r3
        g4 == IF liquidity < 1000 THEN Append(g3, "Low Liquidity") ELSE g3
        g5 == IF ~lpLocked THEN Append(g4, "LP Not Locked") ELSE g4
        g6 == IF MatchesScamPattern(json.name) THEN Append(g5, "Suspicious Name") ELSE g5
        verdict ==
            IF isHoneypot THEN "HONEYPOT -- Cannot sell this token"
            ELSE IF r4 = "critical" THEN "DANGEROUS -- Extreme tax makes token unsellable"
            ELSE IF r4 = "high" THEN "HIGH RISK -- Proceed with extreme caution"
            ELSE IF r4 = "medium" THEN "CAUTION -- Elevated tax detected"
            ELSE "SAFE -- No honeypot detected"
    IN  [isHoneypot |-> isHoneypot, buyTax |-> buyTax, sellTax |-> sellTax,
         verdict |-> verdict, risk_level |-> r4, liquidity |-> liquidity,
         lpLocked |-> lpLocked, tokenName |-> json.name, signals |-> g6]

\* analyze: the result built from honeypotData.
RugFromApi(address, chain, data) ==
    [address |-> address, chain |-> chain, isHoneypot |-> data.isHoneypot,
     buyTax |-> data.buyTax, sellTax |-> data.sellTax,
     verdict |-> data.verdict, risk_level |-> data.risk_level,
     liquidity |-> data.liquidity, lpLocked |-> data.lpLocked,
     tokenName |-> data.tokenName, signals |-> data.signals]

\* heuristicAnalysis: the fallback when the API is unavailable.
heuristicAnalysis(address, chain) ==
    [address |-> address, chain |-> chain, isHoneypot |-> FALSE,
     buyTax |-> 0, sellTax |-> 0,
     verdict |-> "UNKNOWN -- Unable to verify via API. Check manually on HoneyPot.is",
     risk_level |-> "unknown", liquidity |-> "null", lpLocked |-> FALSE,
     signals |-> IF ZeroCount(address) > 20 THEN <<"Unusual address pattern">> ELSE <<>>,
     manual_check_url |-> "https://honeypot.is/?address=" \o address]

\* The ways the call of HoneyPot.is is rejected: the 'timeout' event, the
\* 'error' event, and a body that JSON.parse or the field reads throw on.
ApiFailures == {"timeout", "error", "unparsable"}

\* analyze without its try/catch around the call.
AfterApiFailureRejecting(address, chain) == Rejected

\* analyze after the catch: honeypotData is still null.
AfterApiFailure(address, chain) == Fulfilled(heuristicAnalysis(address, chain))

InitRug ==
    /\ ScanIdle
    /\ cls = ClsIdle
    /\ IdleBut({})
    /\ \E a \in RugAddresses :
        rug = [pc |-> "start", address |-> a, chain |-> "ethereum",
               apiCalls |-> 0, apiArg |-> "", outcome |-> "none",
               reply |-> <<>>,
               result |-> [state |-> "pending"]]

\* analyze up to its first return or to the await.
RugAnalyze ==
    /\ rug.pc = "start"
    /\ rug' = IF RugNormalize(rug.address) \in KNOWN_SAFE
              THEN [rug EXCEPT !.pc = "done",
                               !.result = Fulfilled(RugWhitelisted(rug.address, rug.chain))]
              ELSE [rug EXCEPT !.pc = "api",
                               !.apiCalls = rug.apiCalls + 1,
                               !.apiArg = RugNormalize(rug.address)]
    /\ UNCHANGED <<scanVars, cls, laterVars>>

\* The response ended with a body that parses.
RugApiReply(json) ==
    /\ rug.pc = "api"
    /\ rug' = [rug EXCEPT !.pc = "done", !.outcome = "reply",
                          !.reply = <<json>>,
                          !.result = Fulfilled(RugFromApi(rug.address, rug.chain,
                                                          checkHoneypotIs(json)))]
    /\ UNCHANGED <<scanVars, cls, laterVars>>

\* The call was rejected.
RugApiFails(kind) ==
    /\ rug.pc = "api"
    /\ rug' = [rug EXCEPT !.pc = "done", !.outcome = kind,
                          !.result = AfterApiFailure(rug.address, rug.chain)]
    /\ UNCHANGED <<scanVars, cls, laterVars>>

\* The connection was closed in the middle of the body: the response emits
\* neither 'end' nor an event the code listens to, and analyze stays at the
\* await.
RugApiAborted ==
    /\ rug.pc = "api"
    /\ rug' = [rug EXCEPT !.pc = "aborted", !.outcome = "aborted"]
    /\ UNCHANGED <<scanVars, cls, laterVars>>

NextRug ==
    \/ RugAnalyze
    \/ \E json \in HoneypotReplies : RugApiReply(json)
    \/ \E kind \in ApiFailures : RugApiFails(kind)
    \/ RugApiAborted

SpecRug == InitRug /\ [][NextRug]_vars

\* ------------------------------------------------------------------------
\* POST /api/bulk-scan
\* ------------------------------------------------------------------------
\* Maximum 50 URLs per bulk request.
BULK_LIMIT == 50

\* Arrays of up to MaxBulkScans URLs have scans that settle one by one, each
\* with its own outcome; the longer arrays (BULK_LIMIT, BULK_LIMIT + 1)
\* repeat one URL and their scans settle together with one outcome.
MaxBulkScans == 3

BulkUrls == { u \in Urls : u.text # "www.example.com" }

\* req.body.urls: absent, not an array, or an array of URLs.
BulkBodies ==
    { [kind |-> "missing"], [kind |-> "notArray"] }
    \cup { [kind |-> "array", urls |-> us] :
            us \in UNION { [1..n -> BulkUrls] : n \in 0..MaxBulkScans } }
    \cup { [kind |-> "array", urls |-> [i \in 1..n |-> u]] :
            n \in {BULK_LIMIT, BULK_LIMIT + 1},
            u \in { v \in BulkUrls : ParseUrl(v).ok /\ ParseUrl(v).protocol = "https:" } }

\* A successful outcome of probe p that the providers give for any URL.
BulkGood(p, u) ==
    CASE p = "domain_age" ->
            domainAgeAfterApi([WhoisRecord |-> TRUE, createdDate |-> TRUE, ageDays |-> 1000,
                               registrarName |-> "NameCheap, Inc."])
      [] p = "ssl" ->
            IF ParseUrl(u).protocol = "https:"
            THEN Fulfilled(checkSSLEvent([event |-> "connect", cert |-> TRUE,
                                          inValidity |-> TRUE, days_remaining |-> 30]))
            ELSE Fulfilled(sslNotHttps)
      [] p = "dns" -> Fulfilled(checkDNS([a |-> TRUE, mx |-> MaxMx, ns |-> TRUE, txt |-> "both"]))
      [] p = "safe_browsing" -> Fulfilled(safeBrowsingAfterApi([matches |-> 0]))
      [] p = "whois" ->
            whoisAfterApi([WhoisRecord |-> TRUE, createdDate |-> TRUE, ageDays |-> 1000,
                           registrarName |-> "NameCheap, Inc."])
      [] p = "reputation" ->
            Fulfilled(reputationAfterApi([numeric |-> TRUE, risk_score |-> 0], u))

\* The probes that fail in a scan of a bulk request: none, two, or all.
BulkFailSets == { {}, {"domain_age", "ssl"}, ProbeNames }

\* The arrays Promise.allSettled hands to a scan of URL u.
BulkSettled(u) ==
    { [i \in 1..Len(Probes) |->
         SettledEntry(IF Probes[i] \in F THEN Rejected ELSE BulkGood(Probes[i], u))] :
      F \in BulkFailSets }

\* An aggregation that adds the number of scans that finished before.
BulkScanResultCounting(awaited, u) ==
    LET r == ScanResult(awaited, u)
        k == Cardinality({ i \in DOMAIN bulk.scans : bulk.scans[i].state # "pending" })
    IN  Fulfilled([r.value EXCEPT !.iq_score = Min(100, @ + k)])

\* urlScanner.scanUrl(url) of one element, after its probes settled.
BulkScanResult(awaited, u) == ScanResult(awaited, u)

\* What the promise of scanUrl(u) settles with, and the probe outcomes the
\* scan received.  A rejection stands for an exception that escapes scanUrl.
BulkScanOutcomes(u) ==
    IF ~ParseUrl(u).ok
    THEN { [state |-> "fulfilled", probes |-> <<>>, value |-> InvalidUrlResult(u)] }
    ELSE { [state |-> "fulfilled", probes |-> v,
            value |-> BulkScanResult(AwaitAllSettled(v), u).value] : v \in BulkSettled(u) }
         \cup { [state |-> "rejected", probes |-> <<>>, reason |-> "Error"] }

\* A limit check that lets every array through.
BulkAcceptsAll(n) == TRUE

\* urls.length > 50 is refused.
BulkAccepts(n) == ~(n > BULK_LIMIT)

\* { ...a, ...b }: the fields of b override those of a.
Spread(a, b) ==
    [f \in DOMAIN a \cup DOMAIN b |-> IF f \in DOMAIN b THEN b[f] ELSE a[f]]

\* One element of scanResults.
BulkScanEntry(u, r) ==
    IF r.state = "fulfilled"
    THEN Spread([url |-> u.text], r.value)
    ELSE Spread([url |-> u.text], [iq_score |-> 0, verdict |-> "error", error |-> r.reason])

\* scanResults.filter(r => r.verdict === v).length
CountVerdict(scanResults, v) ==
    Cardinality({ i \in DOMAIN scanResults : scanResults[i].verdict = v })

\* The body of the 200 response.
BulkResponse(urls, scans) ==
    LET scanResults == [i \in DOMAIN scans |-> BulkScanEntry(urls[i], scans[i])]
    IN  [status |-> 200, total |-> Len(scanResults),
         summary |-> [safe |-> CountVerdict(scanResults, "safe"),
                      suspicious |-> CountVerdict(scanResults, "suspicious"),
                      dangerous |-> CountVerdict(scanResults, "dangerous")],
         results |-> scanResults]

InitBulk ==
    /\ ScanIdle
    /\ cls = ClsIdle
    /\ rug = RugIdle
    /\ IdleBut({"bulk"})
    /\ \E b \in BulkBodies :
        bulk = [pc |-> "start", body |-> b, scans |-> <<>>, response |-> [status |-> 0]]

\* The handler up to its await: the two checks, then urls.map starts every
\* scan before any of them can continue.
BulkStart ==
    /\ bulk.pc = "start"
    /\ bulk' =
        IF bulk.body.kind # "array"
        THEN [bulk EXCEPT !.pc = "done",
                          !.response = [status |-> 400, error |-> "Missing required field"]]
        ELSE IF ~BulkAccepts(Len(bulk.body.urls))
        THEN [bulk EXCEPT !.pc = "done",
                          !.response = [status |-> 400, error |-> "Too many URLs"]]
        ELSE [bulk EXCEPT !.pc = "await",
                          !.scans = [i \in DOMAIN bulk.body.urls |-> [state |-> "pending"]]]
    /\ UNCHANGED <<scanVars, cls, rug, auth, social, hist, ext>>

\* The promise of one scan settles.
BulkScanSettles(i) ==
    /\ bulk.pc = "await"
    /\ Len(bulk.scans) <= MaxBulkScans
    /\ i \in DOMAIN bulk.scans
    /\ bulk.scans[i].state = "pending"
    /\ \E o \in BulkScanOutcomes(bulk.body.urls[i]) :
          bulk' = [bulk EXCEPT !.scans[i] = o]
    /\ UNCHANGED <<scanVars, cls, rug, auth, social, hist, ext>>

\* The scans of a long array settle.
BulkSettleAll ==
    /\ bulk.pc = "await"
    /\ Len(bulk.scans) > MaxBulkScans
    /\ \E i \in DOMAIN bulk.scans : bulk.scans[i].state = "pending"
    /\ \E o \in BulkScanOutcomes(bulk.body.urls[1]) :
          bulk' = [bulk EXCEPT !.scans = [i \in DOMAIN bulk.scans |-> o]]
    /\ UNCHANGED <<scanVars, cls, rug, auth, social, hist, ext>>

\* The continuation after await Promise.allSettled(...): res.json.
BulkRespond ==
    /\ bulk.pc = "await"
    /\ \A i \in DOMAIN bulk.scans : bulk.scans[i].state # "pending"
    /\ bulk' = [bulk EXCEPT !.pc = "done",
                            !.response = BulkResponse(bulk.body.urls, bulk.scans)]
    /\ UNCHANGED <<scanVars, cls, rug, auth, social, hist, ext>>

NextBulk ==
    \/ BulkStart
    \/ \E i \in 1..MaxBulkScans : BulkScanSettles(i)
    \/ BulkSettleAll
    \/ BulkRespond

SpecBulk == InitBulk /\ [][NextBulk]_vars

\* ------------------------------------------------------------------------
\* apiKeyAuth
\* ------------------------------------------------------------------------
\* The services of the model: two with a daily limit on the free tier, one
\* Pro service that TIER_LIMITS names (bulk_scan) and one that it does not
\* name (rug_pull_check).
Services == {"email_verify", "ai_detect", "bulk_scan", "rug_pull_check"}

\* The endpoints the server labels Pro, by the service name they pass to
\* apiKeyAuth.
ProServices == {"bulk_scan", "rug_pull_check"}

\* Default usage counters, for the services of the model.
DEFAULT_USAGE == [email_verify |-> 0, ai_detect |-> 0, bulk_scan |-> 0]

\* Tier limits, for the services of the model.
TIER_LIMITS ==
    [free |-> [email_verify |-> 50, ai_detect |-> 10, bulk_scan |-> 0],
     pro |-> [email_verify |-> 1000, ai_detect |-> 100, bulk_scan |-> 100]]

\* If this service isn't in limits, default to unlimited.
UNLIMITED == 999999

DEMO_KEY == "viq_demo_a1b2c3d4e5f6"
GENERATED_KEY == "viq_pro_0123456789abcdef"

\* The requests of the model, by their x-api-key header (absent, unknown to
\* the store, the demo key, the generated key), the service of the endpoint
\* and whether they carry the extension's origin or X-Source header.
AuthRequests ==
    { [key |-> DEMO_KEY, service |-> s, ext |-> e] : s \in Services, e \in BOOLEAN }
    \cup { [key |-> "", service |-> "email_verify", ext |-> e] : e \in BOOLEAN }
    \cup { [key |-> "viq_free_unknown", service |-> "email_verify", ext |-> FALSE],
           [key |-> GENERATED_KEY, service |-> "bulk_scan", ext |-> FALSE] }

\* The middleware called next().
Accepted(req) == Spread(req, [outcome |-> "next", status |-> 0, error |-> ""])

\* The middleware answered with res.status(status).json({ error }).
Refused(req, status, error) ==
    Spread(req, [outcome |-> "refused", status |-> status, error |-> error])

\* The days the clock goes through, and how far the counters of the model
\* go where the tier sets no reachable limit.
MaxDay == 2
MaxUse == 1

\* keyData.limits[service] ?? 999999
LimitOf(keyData, service) ==
    IF service \in DOMAIN keyData.limits THEN keyData.limits[service] ELSE UNLIMITED

\* keyData.usage[service] ?? 0
UsedOf(usage, service) ==
    IF service \in DOMAIN usage THEN usage[service] ELSE 0

\* A limit check that lets the request at the limit through.
LimitReachedAbove(used, limit) == used > limit

\* used >= limit
LimitReached(used, limit) == used >= limit

\* A counter that counts every accepted request twice.
CountRequestTwice(usage, service) ==
    [s \in DOMAIN usage \cup {service} |->
        IF s = service THEN UsedOf(usage, service) + 2 ELSE usage[s]]

\* keyData.usage[service] = (keyData.usage[service] || 0) + 1
CountRequest(usage, service) ==
    [s \in DOMAIN usage \cup {service} |->
        IF s = service THEN UsedOf(usage, service) + 1 ELSE usage[s]]

\* The entry generateKey and the demo key put into API_KEYS.
NewKeyData(tier) ==
    [tier |-> tier, limits |-> TIER_LIMITS[tier], usage |-> DEFAULT_USAGE, lastReset |-> 0]

\* Check rate limits (daily): the entry after the reset of a new day.
DailyReset(keyData, today) ==
    IF keyData.lastReset # today
    THEN [keyData EXCEPT !.usage = DEFAULT_USAGE, !.lastReset = today]
    ELSE keyData

\* The requests the model sends: a counter without a reachable limit is
\* driven up to MaxUse only.
InModel(keyStore, apiKey, service) ==
    IF apiKey \notin DOMAIN keyStore THEN TRUE
    ELSE IF keyStore[apiKey].tier = "free" /\ service \in DOMAIN TIER_LIMITS.free THEN TRUE
    ELSE UsedOf(keyStore[apiKey].usage, service) < MaxUse

\* No request accepted yet today.
NoneAccepted == [k \in {DEMO_KEY, GENERATED_KEY} |-> [s \in Services |-> 0]]

InitAuth ==
    /\ ScanIdle
    /\ cls = ClsIdle
    /\ rug = RugIdle
    /\ IdleBut({"auth"})
    /\ auth = [pc |-> "run", day |-> 1,
               keys |-> [k \in {DEMO_KEY} |-> NewKeyData("free")],
               accepted |-> NoneAccepted,
               last |-> [outcome |-> "none", status |-> 0, error |-> "",
                         key |-> "", service |-> "", ext |-> FALSE]]

\* generateKey(name, 'pro')
GenerateKey ==
    /\ auth.pc = "run"
    /\ GENERATED_KEY \notin DOMAIN auth.keys
    /\ auth' = [auth EXCEPT
                 !.keys = [k \in DOMAIN auth.keys \cup {GENERATED_KEY} |->
                             IF k = GENERATED_KEY THEN NewKeyData("pro") ELSE auth.keys[k]]]
    /\ UNCHANGED <<scanVars, cls, rug, bulk, social, hist, ext>>

\* The UTC date changes.
NextDay ==
    /\ auth.pc = "run"
    /\ auth.day < MaxDay
    /\ auth' = [auth EXCEPT !.day = auth.day + 1, !.accepted = NoneAccepted]
    /\ UNCHANGED <<scanVars, cls, rug, bulk, social, hist, ext>>

\* The middleware apiKeyAuth(service) on one request.
AuthRequest(req) ==
    /\ auth.pc = "run"
    /\ InModel(auth.keys, req.key, req.service)
    /\ IF req.ext
       THEN auth' = [auth EXCEPT !.last = Accepted(req)]
       ELSE IF req.key = ""
       THEN auth' = [auth EXCEPT !.last = Refused(req, 401, "API key required")]
       ELSE IF req.key \notin DOMAIN auth.keys
       THEN auth' = [auth EXCEPT !.last = Refused(req, 403, "Invalid API key")]
       ELSE LET keyData == DailyReset(auth.keys[req.key], auth.day)
                limit == LimitOf(keyData, req.service)
                used == UsedOf(keyData.usage, req.service)
            IN  IF LimitReached(used, limit)
                THEN auth' = [auth EXCEPT
                        !.keys[req.key] = keyData,
                        !.last = IF limit = 0
                                 THEN Refused(req, 403, "Pro feature")
                                 ELSE Refused(req, 429, "Daily limit reached")]
                ELSE auth' = [auth EXCEPT
                        !.keys[req.key] =
                            [keyData EXCEPT !.usage = CountRequest(keyData.usage, req.service)],
                        !.accepted[req.key][req.service] = @ + 1,
                        !.last = Accepted(req)]
    /\ UNCHANGED <<scanVars, cls, rug, bulk, social, hist, ext>>

NextAuth ==
    \/ GenerateKey
    \/ NextDay
    \/ \E req \in AuthRequests : AuthRequest(req)

SpecAuth == InitAuth /\ [][NextAuth]_vars

\* ------------------------------------------------------------------------
\* SocialAnalyzer: the extension's analyzer and its server-side mirror
\* ------------------------------------------------------------------------
MaxComments == 2      \* longest comment list of a profile

\* Comment texts and what (c.text || '').trim().toLowerCase() makes of them.
CommentTexts == {" Nice! ", "Where was this taken?"}
NormalizeText(text) ==
    CASE text = " Nice! " -> "nice!"
      [] text = "Where was this taken?" -> "where was this taken?"

\* lowQualityPatterns.some(p => p.test(text)) || text.length < 4, on the
\* normalised texts: "nice!" matches the generic-word pattern.
LowQuality(text) == text = "nice!"

\* Commenter names and what (c.username || '').trim() makes of them.
Usernames == {"maria.lopez", " user_1234", "ab12345_x"}
TrimName(username) ==
    CASE username = "maria.lopez" -> "maria.lopez"
      [] username = " user_1234" -> "user_1234"
      [] username = "ab12345_x" -> "ab12345_x"

\* The bot-name patterns, by what they look for, and the ones each trimmed
\* name matches.
BotPatternsOf(user) ==
    CASE user = "maria.lopez" -> {}
      [] user = "user_1234" -> {"user_digits", "ends_4_digits"}
      [] user = "ab12345_x" -> {"short_letters_many_digits"}

\* extension: botUsernamePatterns; server: botNamePats
extBotUsernamePatterns ==
    {"user_digits", "ends_4_digits", "name_3_digits", "repeated_char",
     "bot_prefix", "short_letters_many_digits"}
srvBotNamePats ==
    {"user_digits", "ends_4_digits", "name_3_digits", "repeated_char", "bot_prefix"}

\* Bio texts and the funnel patterns each one matches. The extension's
\* aggregator pattern also knows linktr.ee; the server's does not.
Bios ==
    {"", "Coffee and cameras", "DM me for collabs - link in bio",
     "Join my Discord", "Tap the link: linktr.ee/x - join our telegram"}
BioPatternsOf(bio) ==
    CASE bio = "" -> {}
      [] bio = "Coffee and cameras" -> {}
      [] bio = "DM me for collabs - link in bio" ->
            {"aggregator", "aggregator_linktr_ee", "dm", "promo"}
      [] bio = "Join my Discord" -> {"community"}
      [] bio = "Tap the link: linktr.ee/x - join our telegram" ->
            {"aggregator_linktr_ee", "click_bait", "community"}

\* extension: funnelPatterns; server: patterns
extFunnelPatterns ==
    {"aggregator_linktr_ee", "dm", "free_course", "scarcity", "money", "promo",
     "click_bait", "money_emoji", "community", "disclaimer"}
srvFunnelPatterns ==
    {"aggregator", "dm", "free_course", "scarcity", "money", "promo", "disclaimer"}

\* analyzeBio(bio): the flags pushed, one for each pattern that matches.
analyzeBio(patterns, bio) ==
    IF bio = "" THEN {} ELSE BioPatternsOf(bio) \cap patterns

\* analyzeComments(comments): the three counts and the length they are
\* divided by; the percentages are compared as fractions below.
analyzeComments(botPatterns, comments) ==
    LET n == Len(comments)
        text(i) == NormalizeText(comments[i].text)
        user(i) == TrimName(comments[i].username)
    IN  [n |-> n,
         low |-> Cardinality({i \in 1..n : LowQuality(text(i))}),
         bots |-> Cardinality({i \in 1..n : BotPatternsOf(user(i)) \cap botPatterns /= {}}),
         dupes |-> Cardinality({i \in 1..n : \E j \in 1..(i - 1) : text(j) = text(i)})]

RECURSIVE SumLikes(_)
SumLikes(likes) ==
    IF likes = <<>> THEN 0 ELSE Head(likes) + SumLikes(Tail(likes))

RECURSIVE SumSquaredLikes(_)
SumSquaredLikes(likes) ==
    IF likes = <<>> THEN 0 ELSE Head(likes) * Head(likes) + SumSquaredLikes(Tail(likes))

\* HEURISTIC 1: followers / following below 0.05, 0.1, 0.5.
ratioPenalty(p) ==
    IF p.following > 1000
    THEN IF p.followers * 100 < 5 * p.following THEN 45
         ELSE IF p.followers * 10 < p.following THEN 35
         ELSE IF p.followers * 2 < p.following THEN 15
         ELSE 0
    ELSE 0

\* HEURISTIC 2: engagementRate, here multiplied by 100 * followers.
engagementRate(p) ==
    IF p.avgLikes > 0 THEN p.avgLikes * 10000
    ELSE IF p.totalLikes > 0
         THEN IF p.totalLikes < p.followers THEN p.followers ELSE 100 * p.followers
         ELSE 0

engagementPenalty(p) ==
    IF p.followers > 5000
    THEN LET rate == engagementRate(p)
         IN  IF rate > 0 /\ rate < 5 * p.followers THEN 35
             ELSE IF rate > 0 /\ rate < 30 * p.followers THEN 15
             ELSE 0
    ELSE 0

\* HEURISTIC 3: cv < 0.05 && mean > 100. With S the sum and Q the sum of
\* squares of n likes, variance / mean^2 = (n * Q - S * S) / (S * S).
variancePenalty(p) ==
    LET n == Len(p.recentLikes)
        S == SumLikes(p.recentLikes)
        Q == SumSquaredLikes(p.recentLikes)
    IN  IF n >= 3 /\ S > 100 * n /\ 400 * (n * Q - S * S) < S * S THEN 15 ELSE 0

\* HEURISTIC 4
commentPenalty(analysis) ==
    IF analysis.n > 0
    THEN (IF analysis.low * 10 > 6 * analysis.n THEN 25
          ELSE IF analysis.low * 10 > 4 * analysis.n THEN 12 ELSE 0)
         + (IF analysis.bots * 2 > analysis.n THEN 20 ELSE 0)
         + (IF analysis.dupes * 10 > 3 * analysis.n THEN 15 ELSE 0)
    ELSE 0

\* HEURISTIC 5: bioWeight
bioPenalty(bioFlags) ==
    IF Cardinality(bioFlags) > 0 THEN Min(Cardinality(bioFlags) * 5, 15) ELSE 0

\* HEURISTIC 6: the account's age in days; a month is 30 days. A profile
\* without a creation date has age -1 here.
ageAdjustment(p) ==
    IF p.ageDays >= 0
    THEN IF p.ageDays < 30 THEN 0 - 20
         ELSE IF p.ageDays < 90 THEN 0 - 10
         ELSE IF p.ageDays > 720 THEN 5
         ELSE 0
    ELSE 0

\* HEURISTIC 7
verifiedBonus(p) == IF p.isVerified THEN 10 ELSE 0

\* The result of either implementation, given its two pattern lists.
IntegrityResult(p, botPatterns, funnelPatterns) ==
    LET bioFlags == analyzeBio(funnelPatterns, p.bio)
        raw == 100 - ratioPenalty(p) - engagementPenalty(p) - variancePenalty(p)
                   - commentPenalty(analyzeComments(botPatterns, p.comments))
                   - bioPenalty(bioFlags)
                   + ageAdjustment(p) + verifiedBonus(p)
        score == Max(0, Min(100, raw))
    IN  [score |-> score, verdict |-> socialVerdict(score),
         bio_flags |-> Cardinality(bioFlags)]

\* extension/socialAnalyzer.js
extCalculateIntegrityScore(p) ==
    IntegrityResult(p, extBotUsernamePatterns, extFunnelPatterns)

\* the server-side mirror
srvCalculateIntegrityScore(p) ==
    IntegrityResult(p, srvBotNamePats, srvFunnelPatterns)

RECURSIVE SeqsUpTo(_, _)
SeqsUpTo(S, n) ==
    IF n = 0 THEN {<<>>}
    ELSE LET shorter == SeqsUpTo(S, n - 1)
         IN  shorter \cup {Append(s, x) : s \in shorter, x \in S}

SocialComments ==
    {[text |-> " Nice! ", username |-> " user_1234"],
     [text |-> " Nice! ", username |-> "maria.lopez"],
     [text |-> "Where was this taken?", username |-> "maria.lopez"],
     [text |-> "Where was this taken?", username |-> "ab12345_x"]}

Profiles ==
    [followers : {100, 6000, 50000},
     following : {500, 3000},
     avgLikes : {0, 2, 500},
     totalLikes : {0, 3000},
     isVerified : BOOLEAN,
     ageDays : {0 - 1, 10, 60, 800},
     comments : SeqsUpTo(SocialComments, MaxComments),
     bio : Bios,
     recentLikes : {<<>>, <<200, 200, 201>>}]

InitSocial ==
    /\ ScanIdle
    /\ cls = ClsIdle
    /\ rug = RugIdle
    /\ IdleBut({"social"})
    /\ \E p \in Profiles : social = [pc |-> "profile", profile |-> p]

\* The popup scores the scraped profile with the extension's analyzer and
\* POST /api/social-authenticity scores the same profile with the server's.
SocialAnalyze ==
    /\ social.pc = "profile"
    /\ social' = [pc |-> "scored", profile |-> social.profile,
                  extension |-> extCalculateIntegrityScore(social.profile),
                  server |-> srvCalculateIntegrityScore(social.profile)]
    /\ UNCHANGED <<scanVars, cls, rug, bulk, auth, hist, ext>>

NextSocial == SocialAnalyze

SpecSocial == InitSocial /\ [][NextSocial]_vars

\* ------------------------------------------------------------------------
\* Popup scan history: scanHistory and its copy in chrome.storage.local
\* ------------------------------------------------------------------------
HISTORY_LIMIT == 20
MaxAdds == 21         \* addToHistory calls in one behaviour
MaxOpens == 2         \* times the popup is opened in one behaviour
MaxPending == 2       \* storage requests under way at one time

\* The item addToHistory builds; Date.now() is the number of the call.
NewItem(n) == [type |-> "scan", timestamp |-> n]

\* scanHistory.unshift(newItem)
Unshift(list, item) == <<item>> \o list

\* scanHistory.unshift(newItem); if (scanHistory.length > 20) scanHistory.pop()
UnshiftAndPop(list, item) ==
    LET longer == Unshift(list, item)
    IN  IF Len(longer) > HISTORY_LIMIT THEN SubSeq(longer, 1, Len(longer) - 1) ELSE longer

\* chrome.storage.local.set({ scanHistory }): the request carries a copy
\* of the list as it is at the call.
SetRequest(list) == [op |-> "set", value |-> list]
\* chrome.storage.local.get(['scanHistory'])
GetRequest == [op |-> "get", value |-> <<>>]

\* No popup is open; storage holds what earlier popups wrote.
HistClosed(h) == [h EXCEPT !.pc = "closed", !.scanHistory = <<>>, !.loading = FALSE,
                           !.reply = <<>>, !.replied = FALSE,
                           !.requests = SelectSeq(h.requests, LAMBDA r : r.op = "set")]

InitHist ==
    /\ ScanIdle
    /\ cls = ClsIdle
    /\ rug = RugIdle
    /\ IdleBut({"hist"})
    /\ hist = [pc |-> "closed", scanHistory |-> <<>>, loading |-> FALSE,
               reply |-> <<>>, replied |-> FALSE,
               requests |-> <<>>, stored |-> <<>>,
               added |-> <<>>, calls |-> 0, opens |-> 0]

\* DOMContentLoaded: let scanHistory = []; loadHistory() up to its await.
PopupOpens ==
    /\ hist.pc = "closed"
    /\ hist.opens < MaxOpens
    /\ Len(hist.requests) < MaxPending
    /\ hist' = [hist EXCEPT !.pc = "open", !.scanHistory = <<>>, !.loading = TRUE,
                            !.opens = @ + 1,
                            !.requests = Append(@, GetRequest)]
    /\ UNCHANGED <<scanVars, cls, rug, bulk, auth, social, ext>>

\* chrome.storage.local serves its requests in the order they were made.
StorageServes ==
    /\ hist.requests /= <<>>
    /\ ~hist.replied
    /\ LET r == Head(hist.requests)
       IN  IF r.op = "set"
           THEN hist' = [hist EXCEPT !.requests = Tail(@), !.stored = r.value]
           ELSE hist' = [hist EXCEPT !.requests = Tail(@), !.reply = hist.stored,
                                     !.replied = TRUE]
    /\ UNCHANGED <<scanVars, cls, rug, bulk, auth, social, ext>>

\* loadHistory() after its await: scanHistory = stored.scanHistory || [].
LoadHistoryResumes ==
    /\ hist.pc = "open"
    /\ hist.replied
    /\ hist' = [hist EXCEPT !.scanHistory = hist.reply, !.loading = FALSE,
                            !.reply = <<>>, !.replied = FALSE]
    /\ UNCHANGED <<scanVars, cls, rug, bulk, auth, social, ext>>

\* addToHistory(type, label, score, scoreLabel) up to its await.
AddToHistory ==
    /\ hist.pc = "open"
    /\ hist.calls < MaxAdds
    /\ Len(hist.requests) < MaxPending
    /\ LET item == NewItem(hist.calls + 1)
           list == UnshiftAndPop(hist.scanHistory, item)
       IN  hist' = [hist EXCEPT !.scanHistory = list,
                                !.requests = Append(@, SetRequest(list)),
                                !.added = Unshift(@, item),
                                !.calls = @ + 1]
    /\ UNCHANGED <<scanVars, cls, rug, bulk, auth, social, ext>>

\* clearHistory() up to its await.
ClearHistory ==
    /\ hist.pc = "open"
    /\ Len(hist.requests) < MaxPending
    /\ hist' = [hist EXCEPT !.scanHistory = <<>>,
                            !.requests = Append(@, SetRequest(<<>>)),
                            !.added = <<>>]
    /\ UNCHANGED <<scanVars, cls, rug, bulk, auth, social, ext>>

\* The popup closes: its script and its scanHistory are gone, the writes
\* it asked for are still carried out.
PopupCloses ==
    /\ hist.pc = "open"
    /\ hist' = HistClosed(hist)
    /\ UNCHANGED <<scanVars, cls, rug, bulk, auth, social, ext>>

NextHist ==
    \/ PopupOpens
    \/ StorageServes
    \/ LoadHistoryResumes
    \/ AddToHistory
    \/ ClearHistory
    \/ PopupCloses

SpecHist == InitHist /\ [][NextHist]_vars

\* ------------------------------------------------------------------------
\* Extension: one context-menu action, sendToTab and the content script
\* ------------------------------------------------------------------------
MaxToasts == 3        \* toasts on the page at one time

Menus ==
    {"verifyiq-scan-link", "verifyiq-scan-page", "verifyiq-detect-ai",
     "verifyiq-verify-email", "verifyiq-dropship-check",
     "verifyiq-rug-pull-check", "verifyiq-deepfake-check"}

\* The menu items whose handler checks the selection before anything else.
CheckedMenus ==
    {"verifyiq-detect-ai", "verifyiq-verify-email", "verifyiq-rug-pull-check"}

\* The first message of an action whose input passed the check.
LoadingOf(menu) ==
    CASE menu = "verifyiq-detect-ai" -> "AI_LOADING"
      [] menu = "verifyiq-verify-email" -> "EMAIL_LOADING"
      [] OTHER -> "SCAN_LOADING"

\* The message sent with the parsed response.
ResultOf(menu) ==
    CASE menu = "verifyiq-scan-link" -> "SCAN_RESULT"
      [] menu = "verifyiq-scan-page" -> "SCAN_RESULT"
      [] menu = "verifyiq-detect-ai" -> "AI_RESULT"
      [] menu = "verifyiq-verify-email" -> "EMAIL_RESULT"
      [] menu = "verifyiq-dropship-check" -> "DROPSHIP_RESULT"
      [] menu = "verifyiq-rug-pull-check" -> "RUG_PULL_RESULT"
      [] menu = "verifyiq-deepfake-check" -> "DEEPFAKE_RESULT"

LoadingTypes == {"SCAN_LOADING", "AI_LOADING", "EMAIL_LOADING"}

\* The message types whose case calls clearToasts() first.
ClearingTypes ==
    {"SCAN_RESULT", "AI_RESULT", "EMAIL_RESULT", "ERROR", "DROPSHIP_RESULT",
     "DEEPFAKE_RESULT", "AD_TRANSPARENCY_RESULT"}

\* A message; hasAddress says whether message.data.address is there.
Message(type, hasAddress) == [type |-> type, hasAddress |-> hasAddress]

\* showToast(content, type, duration): a toast stays until clearToasts
\* when duration is 0, and removes itself otherwise.
Toast(of, duration) == [of |-> of, persistent |-> duration = 0]

\* The duration each case hands to showToast, in milliseconds.
ToastDuration(type) ==
    CASE type \in LoadingTypes -> 0
      [] type \in {"ERROR", "EMAIL_RESULT"} -> 6000
      [] type \in {"SCAN_RESULT", "AI_RESULT"} -> 8000
      [] type \in {"RUG_PULL_RESULT", "DEEPFAKE_RESULT"} -> 10000
      [] type \in {"DROPSHIP_RESULT", "AD_TRANSPARENCY_RESULT"} -> 12000

\* chrome.runtime.onMessage listener of the content script: the toasts
\* after the message is handled.
OnMessage(toasts, m) ==
    IF m.type \in LoadingTypes THEN Append(toasts, Toast(m.type, ToastDuration(m.type)))
    ELSE IF m.type = "RUG_PULL_RESULT"
         THEN IF m.hasAddress
              THEN Append(toasts, Toast(m.type, ToastDuration(m.type)))
              ELSE toasts
    ELSE IF m.type \in ClearingTypes THEN <<Toast(m.type, ToastDuration(m.type))>>
    ELSE toasts

\* chrome.tabs.sendMessage reaching the content script.
Deliver(e, m) ==
    [e EXCEPT !.received = Append(@, m.type), !.toasts = OnMessage(@, m)]

\* sendToTab(tabId, message) up to its return: the message is delivered,
\* or the script is injected and the retry is left to a timer, or the
\* injection fails.
sendToTab(e, m) ==
    LET s == [e EXCEPT !.sent = Append(@, m.type)]
    IN  IF s.injected THEN Deliver(s, m)
        ELSE IF s.canInject
             THEN [s EXCEPT !.injected = TRUE, !.timers = Append(@, m)]
             ELSE s

\* What fetch and response.json() come to.
FetchOutcomes(menu) ==
    IF menu = "verifyiq-rug-pull-check"
    THEN {"result", "error body", "throws"}
    ELSE {"result", "throws"}

InitExt ==
    /\ ScanIdle
    /\ cls = ClsIdle
    /\ rug = RugIdle
    /\ IdleBut({"ext"})
    /\ \E menu \in Menus, valid \in BOOLEAN, injected \in BOOLEAN, canInject \in BOOLEAN :
        /\ menu \notin CheckedMenus => valid
        /\ injected => canInject
        /\ ext = [pc |-> "clicked", menu |-> menu, valid |-> valid,
                  injected |-> injected, canInject |-> canInject,
                  sent |-> <<>>, received |-> <<>>, timers |-> <<>>,
                  toasts |-> <<>>]

\* contextMenus.onClicked up to the await that follows its first sendToTab.
MenuClicked ==
    /\ ext.pc = "clicked"
    /\ ext' = IF ~ext.valid
              THEN [sendToTab(ext, Message("ERROR", FALSE)) EXCEPT !.pc = "done"]
              ELSE [sendToTab(ext, Message(LoadingOf(ext.menu), FALSE)) EXCEPT
                        !.pc = IF ext.menu = "verifyiq-dropship-check"
                               THEN "ask" ELSE "fetch"]
    /\ UNCHANGED <<scanVars, cls, rug, bulk, auth, social, hist>>

\* The dropship handler asks the content script for the product.
DropshipAsk(product) ==
    /\ ext.pc = "ask"
    /\ ext' = IF ~ext.injected
              THEN [sendToTab(ext, Message("ERROR", FALSE)) EXCEPT !.pc = "done"]
              ELSE IF product
              THEN [ext EXCEPT !.received = Append(@, "CHECK_DROPSHIP"), !.pc = "fetch"]
              ELSE [sendToTab([ext EXCEPT !.received = Append(@, "CHECK_DROPSHIP")],
                              Message("ERROR", FALSE)) EXCEPT !.pc = "done"]
    /\ UNCHANGED <<scanVars, cls, rug, bulk, auth, social, hist>>

\* fetch and response.json() settle and the handler sends its last message.
FetchSettles(outcome) ==
    /\ ext.pc = "fetch"
    /\ outcome \in FetchOutcomes(ext.menu)
    /\ ext' = IF outcome = "throws"
              THEN [sendToTab(ext, Message("ERROR", FALSE)) EXCEPT !.pc = "done"]
              ELSE [sendToTab(ext, Message(ResultOf(ext.menu), outcome = "result"))
                        EXCEPT !.pc = "done"]
    /\ UNCHANGED <<scanVars, cls, rug, bulk, auth, social, hist>>

\* The 300 ms timer of a sendToTab runs out and the message is sent again.
RetryFires ==
    /\ ext.timers /= <<>>
    /\ ext' = Deliver([ext EXCEPT !.timers = Tail(@)], Head(ext.timers))
    /\ UNCHANGED <<scanVars, cls, rug, bulk, auth, social, hist>>

\* The auto-dismiss timer of a toast with a duration removes it.
ToastExpires(i) ==
    /\ i \in 1..Len(ext.toasts)
    /\ ~ext.toasts[i].persistent
    /\ ext' = [ext EXCEPT !.toasts = SubSeq(@, 1, i - 1) \o SubSeq(@, i + 1, Len(@))]
    /\ UNCHANGED <<scanVars, cls, rug, bulk, auth, social, hist>>

NextExt ==
    \/ MenuClicked
    \/ \E product \in BOOLEAN : DropshipAsk(product)
    \/ \E outcome \in {"result", "error body", "throws"} : FetchSettles(outcome)
    \/ RetryFires
    \/ \E i \in 1..MaxToasts : ToastExpires(i)

SpecExt == InitExt /\ [][NextExt]_vars

\* Handlers run on, pending fetches settle, timers run out.
SpecExtLive ==
    /\ SpecExt
    /\ WF_vars(MenuClicked)
    /\ WF_vars(\E product \in BOOLEAN : DropshipAsk(product))
    /\ WF_vars(\E outcome \in {"result", "error body", "throws"} : FetchSettles(outcome))
    /\ WF_vars(RetryFires)
    /\ WF_vars(\E i \in 1..MaxToasts : ToastExpires(i))

\* ------------------------------------------------------------------------
\* Properties
\* ------------------------------------------------------------------------
Parsable == ParseUrl(url).ok
Done == pc = "done"
Failed(p) == promise[p].state = "rejected"

\* C1: scanUrl on a parsable URL never rejects, whichever probes failed: it
\* resolves with a numeric iq_score, a verdict among safe, suspicious and
\* dangerous, and no request-level error.
C1_ResolvesDespiteFailures ==
    (Done /\ Parsable) =>
        /\ result.state = "fulfilled"
        /\ result.value.iq_score \in 0..100
        /\ result.value.verdict \in {"safe", "suspicious", "dangerous"}
        /\ ~Has(result.value, "error")

C1_Witness ==
    /\ Done /\ Parsable
    /\ result.state = "fulfilled"
    /\ \E p, q \in ProbeNames : Failed(p) /\ ~Failed(q)

\* C2: for every combination of probe outcomes the iq_score returned is an
\* integer between 0 and 100.
C2_ScoreInRange ==
    (Done /\ result.state = "fulfilled") =>
        /\ result.value.iq_score \in Int
        /\ 0 <= result.value.iq_score
        /\ result.value.iq_score <= 100

C2_Witness ==
    /\ Done /\ result.state = "fulfilled"
    /\ rawScore(result.value.checks) > 10000
    /\ result.value.iq_score = 100

\* C3: a scan whose URL parses eventually returns, also when the network
\* never answers one of its probes.
C3_ScanReturns == Parsable ~> Done

\* C9: a string that does not parse starts no probe and gets iq_score 0,
\* verdict 'dangerous' and the error 'Invalid URL format'.
C9_InvalidUrlShortCircuits ==
    ~Parsable =>
        /\ \A p \in ProbeNames : started[p] = 0 /\ promise[p] = NotCalled
        /\ Done =>
            /\ result.state = "fulfilled"
            /\ result.value.iq_score = 0
            /\ result.value.verdict = "dangerous"
            /\ Has(result.value, "error")
            /\ result.value.error = "Invalid URL format"

C9_Witness == Done /\ ~Parsable /\ result.state = "fulfilled"

\* C4: every probe is called exactly once, all six before scanUrl awaits
\* anything; a probe that fails at once is not called again and does not keep
\* the others from being called and collected.
C4_EachProbeStartedOnce ==
    /\ \A p \in ProbeNames : started[p] <= 1
    /\ \A i \in 1..Len(Probes) :
          (pc = "launch" /\ i < nextProbe) => started[Probes[i]] = 1
    /\ (Parsable /\ pc \in {"await", "done"}) => \A p \in ProbeNames : started[p] = 1
    /\ (Parsable /\ Done /\ result.state = "fulfilled") =>
          /\ DOMAIN result.value.checks = ProbeNames
          /\ \A p \in ProbeNames :
                promise[p].state = "fulfilled" => result.value.checks[p] = promise[p].value

C4_Witness ==
    /\ Parsable /\ Done /\ result.state = "fulfilled"
    /\ Failed("domain_age")
    /\ \A p \in ProbeNames \ {"domain_age"} : promise[p].state = "fulfilled"
    /\ \A p \in ProbeNames : started[p] = 1

\* An entry of `checks` that says the probe could not be run.
HasFailureMarker(c) == Has(c, "error") \/ Has(c, "fallback")

\* C5: the entry of every failed probe in the returned checks carries a
\* failure marker.
C5_FailureIsMarked ==
    (Parsable /\ Done /\ result.state = "fulfilled") =>
        \A p \in ProbeNames : Failed(p) => HasFailureMarker(result.value.checks[p])

\* The largest contribution probe p makes when it succeeds, over all inputs.
BestSuccess(p) ==
    LET scores == { ProbeScore(p, o.value) :
                      o \in { x \in UNION { ProbeOutcomes(p, u) : u \in { v \in Urls : ParseUrl(v).ok } } :
                                x.state = "fulfilled" } }
    IN  CHOOSE m \in scores : \A n \in scores : n <= m

\* C6: a failed probe contributes strictly less to the score than the same
\* probe's best successful outcome.
C6_FailureNotRewarded ==
    (Parsable /\ Done /\ result.state = "fulfilled") =>
        \A p \in ProbeNames :
            Failed(p) => ProbeScore(p, result.value.checks[p]) < BestSuccess(p)

AllFailed == \A p \in ProbeNames : Failed(p)

\* C7, as stated: when all six probes fail the scan returns the neutral
\* score 50.
C7_AllFailedGivesFifty ==
    (Parsable /\ Done /\ AllFailed) =>
        result.state = "fulfilled" /\ result.value.iq_score = 50

\* C7, amended: when all six probes fail the scan still resolves, always
\* with iq_score 38 and verdict 'dangerous', and without an error.
C7_AllFailedGivesThirtyEight ==
    (Parsable /\ Done /\ AllFailed) =>
        /\ result.state = "fulfilled"
        /\ result.value.iq_score = 38
        /\ result.value.verdict = "dangerous"
        /\ ~Has(result.value, "error")

C7_Witness == Parsable /\ Done /\ AllFailed /\ result.state = "fulfilled"

\* What scanUrl owes to the outcomes of the probes alone.
ChecksOfOutcomes ==
    [p \in ProbeNames |->
        IF promise[p].state = "fulfilled" THEN promise[p].value ELSE CheckFallback(p)]

\* C8: checks, iq_score and verdict are a function of the six outcomes,
\* whatever the order in which the promises settled.
C8_OrderIndependent ==
    (Parsable /\ Done /\ result.state = "fulfilled") =>
        /\ result.value.checks = ChecksOfOutcomes
        /\ result.value.iq_score = computeIQScore(ChecksOfOutcomes)
        /\ result.value.verdict = Verdict(computeIQScore(ChecksOfOutcomes))

C8_Witness ==
    /\ Parsable /\ Done /\ result.state = "fulfilled"
    /\ outOfOrder
    /\ \E p \in ProbeNames : Failed(p)

\* The weight table of the claim.
ClaimWeight ==
    [domain_age |-> 25, ssl |-> 15, safe_browsing |-> 30, dns |-> 10,
     whois |-> 10, reputation |-> 10]

\* The credit of a probe's entry, as a multiple of 1/3000.
Credit(p, c) ==
    CASE p = "domain_age" ->
            IF c.age_days > 730 THEN 3000
            ELSE IF c.age_days > 365 THEN 2400
            ELSE IF c.age_days > 180 THEN 1800
            ELSE IF c.age_days > 30 THEN 900
            ELSE 300
      [] p = "ssl" ->
            IF Truthy(c, "valid")
            THEN (IF Has(c, "days_remaining") /\ c.days_remaining > 90 THEN 3400 ELSE 3000)
            ELSE 0
      [] p = "safe_browsing" -> IF Truthy(c, "safe") THEN 3000 ELSE 0
      [] p = "dns" ->
            IF Truthy(c, "has_records")
            THEN 1500 + (IF c.mx_count > 0 THEN 600 ELSE 0)
                 + (IF Truthy(c, "has_spf") THEN 450 ELSE 0)
                 + (IF Truthy(c, "has_dmarc") THEN 450 ELSE 0)
            ELSE 0
      [] p = "whois" ->
            IF Truthy(c, "registered")
            THEN (IF c.registrar # "Unknown (no WHOIS key)" THEN 3000 ELSE 1800)
            ELSE 0
      [] p = "reputation" -> c.score * 30

RECURSIVE SumOver(_, _)
SumOver(f, S) ==
    IF S = {} THEN 0
    ELSE LET x == CHOOSE y \in S : TRUE
         IN  f[x] + SumOver(f, S \ {x})

\* C10: iq_score is the weighted sum of the credits, divided by the sum of
\* the weights of the six scheduled probes, times 100, rounded to a nearest
\* integer and clamped to [0, 100].
C10_WeightedAverage ==
    (Done /\ result.state = "fulfilled") =>
        LET checks == result.value.checks
            weighted == SumOver([p \in ProbeNames |-> ClaimWeight[p] * Credit(p, checks[p])],
                                ProbeNames)
            den == 3000 * SumOver(ClaimWeight, ProbeNames)
            exact == Max(0, Min(100 * den, 100 * weighted))
            iq == result.value.iq_score
        IN  /\ iq \in 0..100
            /\ 2 * (iq * den - exact) <= den
            /\ 2 * (exact - iq * den) <= den

C10_Witness ==
    /\ Done /\ result.state = "fulfilled"
    /\ result.value.iq_score \in 1..99
    /\ rawScore(result.value.checks) % 100 = 50
    /\ \E p \in ProbeNames : Failed(p)

\* C11: the credit of every probe is in [0, 1]: its contribution to the sum
\* is at least 0 and at most the weight of the probe.
C11_CreditWithinWeight ==
    (Done /\ result.state = "fulfilled") =>
        \A p \in ProbeNames :
            /\ 0 <= ProbeScore(p, result.value.checks[p])
            /\ ProbeScore(p, result.value.checks[p]) <= 100 * ClaimWeight[p]

\* The breakpoints of the claim: 730, 365, 180 and 30 days belong to the
\* upper tier.
ClaimAgeCredit(age) ==
    IF age >= 730 THEN 100
    ELSE IF age >= 365 THEN 80
    ELSE IF age >= 180 THEN 60
    ELSE IF age >= 30 THEN 30
    ELSE 10

\* C12: the domain-age contribution is 25 times the step function with the
\* breakpoints age >= 730, >= 365, >= 180, >= 30.
C12_AgeBreakpoints ==
    (Done /\ result.state = "fulfilled") =>
        ageScore(result.value.checks.domain_age)
            = 25 * ClaimAgeCredit(result.value.checks.domain_age.age_days)

\* The order of the tiers of each kind, worst first.
TierRank(v) ==
    CASE v \in {"dangerous", "Bot/Fake", "undeliverable"} -> 1
      [] v \in {"suspicious", "Suspicious", "risky"} -> 2
      [] v \in {"safe", "Plausible", "deliverable"} -> 3
      [] v = "Authentic" -> 4

\* C13: for each kind's classifier, score_a >= score_b implies that the
\* verdict of score_a is not a worse tier than the verdict of score_b.
C13_ClassifierMonotonic ==
    (cls.classified /\ cls.a >= cls.b) =>
        /\ TierRank(cls.url[1]) >= TierRank(cls.url[2])
        /\ TierRank(cls.social[1]) >= TierRank(cls.social[2])
        /\ TierRank(cls.email[1]) >= TierRank(cls.email[2])

C13_Witness ==
    /\ cls.classified /\ cls.a > cls.b
    /\ TierRank(cls.url[1]) > TierRank(cls.url[2])
    /\ TierRank(cls.social[1]) > TierRank(cls.social[2])
    /\ TierRank(cls.email[1]) > TierRank(cls.email[2])

\* The scores at which a verdict changes, per kind.
UrlThresholds == {75, 50}
SocialThresholds == {80, 60, 40}
EmailThresholds == {80, 60, 30}

\* C14: in every kind's table a score equal to a threshold gets
\* the lower of the two adjacent tiers, the tier of the score just below.
C14_TiesToLowerTier ==
    (cls.classified /\ cls.b = cls.a - 1) =>
        /\ cls.a \in UrlThresholds => cls.url[1] = cls.url[2]
        /\ cls.a \in SocialThresholds => cls.social[1] = cls.social[2]
        /\ cls.a \in EmailThresholds => cls.email[1] = cls.email[2]

\* The checks of a finished scan.
Checks == result.value.checks

\* C15: no valid TLS, domain age 10 days and a threat-list hit give
\* iq_score <= 30 and the verdict 'dangerous', whatever the DNS, WHOIS and
\* reputation probes return.
C15_YoungUnsafeIsDangerous ==
    (Done /\ result.state = "fulfilled"
        /\ ~Truthy(Checks.ssl, "valid")
        /\ Has(Checks.domain_age, "age_days") /\ Checks.domain_age.age_days = 10
        /\ ~Truthy(Checks.safe_browsing, "safe")) =>
            /\ result.value.iq_score <= 30
            /\ result.value.verdict = "dangerous"

\* All DNS records present: A, MX, NS, SPF and DMARC.
AllDnsPresent(c) ==
    /\ Truthy(c, "has_records") /\ Has(c, "mx_count") /\ c.mx_count > 0
    /\ Truthy(c, "has_spf") /\ Truthy(c, "has_dmarc")

\* A good heuristic reputation: the heuristic's base score or better.
GoodHeuristicReputation(c) ==
    Has(c, "source") /\ c.source = "heuristic" /\ c.score >= 70

EstablishedSite ==
    /\ Done /\ result.state = "fulfilled"
    /\ Truthy(Checks.ssl, "valid")
    /\ Has(Checks.domain_age, "age_days") /\ Checks.domain_age.age_days = 1000
    /\ AllDnsPresent(Checks.dns)
    /\ Truthy(Checks.safe_browsing, "safe")
    /\ GoodHeuristicReputation(Checks.reputation)

\* C16: valid TLS, domain age 1000 days, all DNS records, no threat-list hit
\* and a good heuristic reputation give iq_score >= 75 and the verdict
\* 'safe', whatever the WHOIS probe returns.
C16_EstablishedIsSafe ==
    EstablishedSite =>
        /\ result.value.iq_score >= 75
        /\ result.value.verdict = "safe"

\* The case with the least to spare: no WHOIS credit at all, no bonus.
C16_Witness ==
    /\ EstablishedSite
    /\ ~Truthy(Checks.whois, "registered")
    /\ result.value.iq_score = 88

\* Every probe succeeded with its best outcome.
AllBest ==
    /\ Done /\ result.state = "fulfilled"
    /\ \A p \in ProbeNames : promise[p].state = "fulfilled"
    /\ Truthy(Checks.ssl, "valid")
    /\ Has(Checks.domain_age, "age_days") /\ Checks.domain_age.age_days > 730
    /\ AllDnsPresent(Checks.dns)
    /\ Truthy(Checks.safe_browsing, "safe")
    /\ Truthy(Checks.whois, "registered") /\ Has(Checks.whois, "registrar")
    /\ Checks.whois.registrar # "Unknown (no WHOIS key)"
    /\ Checks.reputation.score >= 100

\* C17: if every probe succeeds with its best outcome, iq_score = 100.
C17_AllBestGivesHundred ==
    AllBest => result.value.iq_score = 100

\* Every credit exactly 1.0: the sum is 100 before the clamp.
C17_Witness ==
    /\ AllBest
    /\ rawScore(Checks) = 100 * totalWeight
    /\ result.value.iq_score = 100

\* C18: for an address whose trimmed, lower-cased form is whitelisted,
\* analyze returns risk_level 'safe' with the whitelist verdict and
\* checkHoneypotIs is never called.
C18_WhitelistShortCircuits ==
    (rug.pc # "idle" /\ Trim(ToLowerCase(rug.address)) \in KNOWN_SAFE) =>
        /\ rug.apiCalls = 0
        /\ rug.pc \in {"start", "done"}
        /\ rug.pc = "done" =>
            /\ rug.result.state = "fulfilled"
            /\ rug.result.value.risk_level = "safe"
            /\ rug.result.value.verdict = "SAFE -- Whitelisted Token"

\* A whitelisted token given in checksum case or padded with blanks.
C18_Witness ==
    /\ rug.pc = "done"
    /\ rug.address \notin KNOWN_SAFE
    /\ Trim(ToLowerCase(rug.address)) \in KNOWN_SAFE
    /\ rug.result.value.risk_level = "safe"
    /\ rug.apiCalls = 0

KeyedFallbackProbes == {"domain_age", "safe_browsing"}
KeyOf(p) == IF p = "domain_age" THEN "WHOIS_API_KEY" ELSE "SAFE_BROWSING_KEY"

\* What the heuristic fallback of probe p returns: the nameserver heuristic
\* (or its own message when the nameserver lookup fails) and the patterns.
IsFallbackValue(p, v) ==
    IF p = "domain_age"
    THEN \/ Has(v, "source") /\ v.source = "dns_heuristic"
         \/ Has(v, "error") /\ v.error = "Could not determine domain age"
    ELSE Has(v, "source") /\ v.source = "pattern_heuristic"

\* Without its key a probe never calls the provider, and what it resolves
\* with is the fallback's value.
KeyAbsentUsesFallback ==
    \A p \in KeyedFallbackProbes :
        KeyOf(p) \notin keys =>
            /\ promise[p] # Pending("api")
            /\ promise[p].state = "fulfilled" => IsFallbackValue(p, promise[p].value)

\* A step of a called probe never rejects it, and the step that ends a
\* provider call leads to the provider's answer or to the fallback.
PendingStepResolves ==
    \A p \in KeyedFallbackProbes :
        (promise[p].state = "pending" /\ promise'[p] # promise[p]) =>
            /\ promise'[p].state # "rejected"
            /\ promise[p] = Pending("api") =>
                \/ promise'[p] = Pending("dns")
                \/ /\ promise'[p].state = "fulfilled"
                   /\ \/ IsFallbackValue(p, promise'[p].value)
                      \/ promise'[p].value.source \in {"whoisxml", "google_safe_browsing"}

\* C20: a probe whose API key is absent, or whose provider call fails, falls
\* through to its heuristic fallback and resolves instead of rejecting
\* (domain age: 'dns_heuristic'; threat list: 'pattern_heuristic').
C20_FallsThroughToHeuristic ==
    [](KeyAbsentUsesFallback) /\ [][PendingStepResolves]_vars

\* The domain-age probe without a key and the threat-list probe after a
\* failed provider call, both resolved by their fallbacks.
C20_Witness ==
    /\ "WHOIS_API_KEY" \notin keys
    /\ promise["domain_age"].state = "fulfilled"
    /\ Has(promise["domain_age"].value, "source")
    /\ promise["domain_age"].value.source = "dns_heuristic"
    /\ "SAFE_BROWSING_KEY" \in keys
    /\ promise["safe_browsing"].state = "fulfilled"
    /\ promise["safe_browsing"].value.source = "pattern_heuristic"

\* The scans of the bulk request that ran their probes to the end.
BulkFinished ==
    IF bulk.pc \in {"idle", "start"} THEN {}
    ELSE { i \in DOMAIN bulk.scans :
             bulk.scans[i].state = "fulfilled" /\ bulk.scans[i].probes # <<>> }

C24_BulkScan ==
    (bulk.pc # "idle" /\ bulk.body.kind = "array") =>
        LET urls == bulk.body.urls
            n == Len(urls)
        IN  /\ n > 50 =>
                /\ bulk.scans = <<>>
                /\ bulk.pc = "done" => bulk.response.status = 400
            /\ (n <= 50 /\ bulk.pc # "start") => Len(bulk.scans) = n
            /\ (n <= 50 /\ bulk.pc = "done") =>
                /\ bulk.response.status = 200
                /\ bulk.response.total = n
                /\ Len(bulk.response.results) = n
                /\ \A i \in 1..n :
                    /\ bulk.response.results[i].url = urls[i].text
                    /\ bulk.scans[i].state = "fulfilled" =>
                        /\ bulk.response.results[i].iq_score = bulk.scans[i].value.iq_score
                        /\ bulk.response.results[i].verdict = bulk.scans[i].value.verdict
                    /\ bulk.scans[i].state = "rejected" =>
                        bulk.response.results[i].verdict = "error"
                /\ bulk.response.summary.safe + bulk.response.summary.suspicious
                    + bulk.response.summary.dangerous <= bulk.response.total

\* Three URLs, the scan of the second failed, the others have their results.
C24_Witness ==
    /\ bulk.pc = "done" /\ bulk.response.status = 200
    /\ bulk.response.total = 3
    /\ bulk.scans[2].state = "rejected"
    /\ bulk.response.results[1].verdict = "safe"
    /\ bulk.response.results[3].verdict = "dangerous"
    /\ bulk.response.summary.safe + bulk.response.summary.suspicious
        + bulk.response.summary.dangerous = 2


\* A step that is a request of the demo key (free tier) for service s, not
\* sent by the extension.
FreeKeyRequest(s) ==
    /\ auth' # auth
    /\ auth'.day = auth.day
    /\ DOMAIN auth'.keys = DOMAIN auth.keys
    /\ auth'.last.key = DEMO_KEY /\ auth'.last.service = s /\ ~auth'.last.ext

\* The daily limits of the free tier as the claim gives them.
ClaimFreeLimit(s) == IF s = "email_verify" THEN 50 ELSE 10

\* No more requests accepted today than the limit.
AcceptedWithinLimit ==
    auth.pc # "idle" =>
        \A s \in {"email_verify", "ai_detect"} :
            auth.accepted[DEMO_KEY][s] <= ClaimFreeLimit(s)

\* A request at the limit gets 429; the first request of a day is accepted
\* and counted as the first.
FreeKeyStep ==
    \A s \in {"email_verify", "ai_detect"} :
        FreeKeyRequest(s) =>
            /\ auth.accepted[DEMO_KEY][s] = ClaimFreeLimit(s) =>
                /\ auth'.last.status = 429
                /\ auth'.accepted = auth.accepted
            /\ auth.accepted[DEMO_KEY][s] < ClaimFreeLimit(s) =>
                auth'.last.outcome = "next"
            /\ auth.keys[DEMO_KEY].lastReset # auth.day =>
                /\ auth'.last.outcome = "next"
                /\ auth'.keys[DEMO_KEY].usage[s] = 1

C23_ProRejectsFreeKey ==
    (auth.pc # "idle" /\ auth.last.outcome # "none"
        /\ auth.last.key = DEMO_KEY /\ ~auth.last.ext
        /\ auth.last.service \in ProServices) =>
            /\ auth.last.status = 403
            /\ auth.last.error = "Pro feature"


\* A step that is one request passing through apiKeyAuth; auth'.last tells
\* which request and how it ended.
AuthStep ==
    /\ auth' # auth
    /\ auth'.day = auth.day
    /\ DOMAIN auth'.keys = DOMAIN auth.keys

\* The counters of key k changed by `plus` for (key, service) and by nothing
\* else, starting from the counters `base`.
CountersAre(base, key, service, plus) ==
    \A k \in DOMAIN auth.keys, s \in Services :
        UsedOf(auth'.keys[k].usage, s)
            = UsedOf(base[k], s) + (IF k = key /\ s = service THEN plus ELSE 0)

\* For every key and every service with a configured limit, usage never
\* exceeds the limit.
UsageWithinLimit ==
    auth.pc # "idle" =>
        \A k \in DOMAIN auth.keys : \A s \in DOMAIN auth.keys[k].limits :
            UsedOf(auth.keys[k].usage, s) <= auth.keys[k].limits[s]

\* The counters before the step.
UsageBefore == [k \in DOMAIN auth.keys |-> auth.keys[k].usage]

\* The counters before the step, after the daily reset that a request with
\* a valid key runs first when the key was not used yet today.
UsageAfterReset ==
    [k \in DOMAIN auth.keys |->
        IF k = auth'.last.key /\ ~auth'.last.ext /\ auth.keys[k].lastReset # auth.day
        THEN DEFAULT_USAGE
        ELSE auth.keys[k].usage]

\* C30: a rejected request changes no usage counter and an accepted
\* key-authenticated request increases only the counter of its own service
\* of its own key, by exactly 1; hence usage never exceeds a configured
\* limit.
C30_FrameOfCounters ==
    /\ [](UsageWithinLimit)
    /\ [][AuthStep =>
            /\ auth'.last.outcome = "refused" => CountersAre(UsageBefore, "", "", 0)
            /\ (auth'.last.outcome = "next" /\ ~auth'.last.ext) =>
                CountersAre(UsageBefore, auth'.last.key, auth'.last.service, 1)]_vars

\* C30, amended: a request with a valid key that is the key's first of the
\* UTC day first sets all counters of that key to zero, whether it is then
\* accepted or rejected; apart from that reset a rejected request changes no
\* counter, an accepted key-authenticated request increases only the
\* counter of its own service of its own key by exactly 1, and usage never
\* exceeds a configured limit.
C30_FrameAfterDailyReset ==
    /\ [](UsageWithinLimit)
    /\ [][AuthStep =>
            /\ auth'.last.outcome = "refused" => CountersAre(UsageAfterReset, "", "", 0)
            /\ (auth'.last.outcome = "next" /\ ~auth'.last.ext) =>
                CountersAre(UsageAfterReset, auth'.last.key, auth'.last.service, 1)
            /\ (auth'.last.outcome = "next" /\ auth'.last.ext) =>
                CountersAre(UsageBefore, "", "", 0)]_vars

\* On the second day the demo key's first request was for a Pro service: it
\* was refused, and the key's counters are at zero; the generated key has
\* its own request counted.
C30_Witness ==
    /\ auth.pc = "run" /\ auth.day = 2
    /\ auth.last.key = DEMO_KEY /\ auth.last.outcome = "refused"
    /\ auth.last.error = "Pro feature"
    /\ auth.keys[DEMO_KEY].lastReset = 2
    /\ \A s \in Services : UsedOf(auth.keys[DEMO_KEY].usage, s) = 0
    /\ GENERATED_KEY \in DOMAIN auth.keys
    /\ UsedOf(auth.keys[GENERATED_KEY].usage, "bulk_scan") = 1


\* ------------------------------------------------------------------------
\* C25: the server-side social analyzer mirrors the extension's: for every
\* profile both calculateIntegrityScore implementations return the same
\* score and the same verdict.
\* ------------------------------------------------------------------------
C25_MirrorSameScoreAndVerdict ==
    social.pc = "scored" =>
        /\ social.server.score = social.extension.score
        /\ social.server.verdict = social.extension.verdict

\* ------------------------------------------------------------------------
\* C26: after any sequence of addToHistory and clearHistory calls in the
\* popup, scanHistory holds at most 20 entries, newest first, exactly the
\* most recent (up to 20) entries added since the last clear, and the copy
\* written to chrome.storage.local equals the in-memory list.
\* ------------------------------------------------------------------------
NewestFirst(list) ==
    \A i \in 1..Len(list) : \A j \in 1..Len(list) :
        i < j => list[i].timestamp > list[j].timestamp

MostRecent(list) == SubSeq(list, 1, Min(Len(list), HISTORY_LIMIT))

\* What the claim says of the state a call leaves behind; the copy written
\* is the one carried by the storage request the call has just made.
HistoryAsClaimed ==
    /\ Len(hist.scanHistory) <= HISTORY_LIMIT
    /\ NewestFirst(hist.scanHistory)
    /\ hist.scanHistory = MostRecent(hist.added)
    /\ hist.requests /= <<>>
    /\ hist.requests[Len(hist.requests)] = SetRequest(hist.scanHistory)

C26_HistoryInvariant ==
    [][(AddToHistory \/ ClearHistory) => HistoryAsClaimed']_vars

\* ------------------------------------------------------------------------
\* C27: in checkHoneypotIs, with safe < medium < high < critical, adding a
\* risk signal to a token (honeypot flag, sell tax > 10, buy tax > 10,
\* liquidity < 1000) never yields a lower risk_level than the same token
\* without that signal.
\* ------------------------------------------------------------------------
RiskRank(risk_level) ==
    CASE risk_level = "safe" -> 0
      [] risk_level = "medium" -> 1
      [] risk_level = "high" -> 2
      [] risk_level = "critical" -> 3

\* The risk signals a reply carries.
RiskSignalsOf(json) ==
    {s \in {"honeypot", "sellTax", "buyTax", "liquidity"} :
        CASE s = "honeypot" -> json.isHoneypot
          [] s = "sellTax" -> RoundHundredths(json.sellTax) > 1000
          [] s = "buyTax" -> RoundHundredths(json.buyTax) > 1000
          [] s = "liquidity" -> json.liquidity < 1000}

\* The same token without one of its signals.
WithoutSignal(json, s) ==
    CASE s = "honeypot" -> [json EXCEPT !.isHoneypot = FALSE]
      [] s = "sellTax" -> [json EXCEPT !.sellTax = 0]
      [] s = "buyTax" -> [json EXCEPT !.buyTax = 0]
      [] s = "liquidity" -> [json EXCEPT !.liquidity = 1000]

C27_SignalNeverLowersRisk ==
    (rug.pc = "done" /\ rug.outcome = "reply") =>
        \A s \in RiskSignalsOf(rug.reply[1]) :
            RiskRank(rug.result.value.risk_level)
                >= RiskRank(checkHoneypotIs(WithoutSignal(rug.reply[1], s)).risk_level)


\* ------------------------------------------------------------------------
\* C28: for one context-menu scan the content script receives the messages
\* in the order the background worker sent them: the loading message is
\* never delivered after the result or ERROR message of the same scan, also
\* when the first send fails and sendToTab injects the script and retries.
\* ------------------------------------------------------------------------
EndingTypes ==
    {"SCAN_RESULT", "AI_RESULT", "EMAIL_RESULT", "DROPSHIP_RESULT",
     "RUG_PULL_RESULT", "DEEPFAKE_RESULT", "ERROR"}

C28_LoadingBeforeResult ==
    \A i \in 1..Len(ext.received) : \A j \in 1..Len(ext.received) :
        (i < j /\ ext.received[i] \in EndingTypes) => ext.received[j] \notin LoadingTypes

\* ------------------------------------------------------------------------
\* C29: every persistent loading toast (duration 0, shown on SCAN_LOADING,
\* AI_LOADING or EMAIL_LOADING) is eventually removed: the message that
\* ends the action clears all toasts.
\* ------------------------------------------------------------------------
LoadingToastShown ==
    \E i \in 1..Len(ext.toasts) : ext.toasts[i].persistent

C29_LoadingToastRemoved == LoadingToastShown ~> ~LoadingToastShown


====
